---- MODULE Spec2Model ----
(***************************************************************************)
(* Pipeline execution engine of markdown-pipeline (Pipeline.ts, latest     *)
(* design: four stage lists, start gate, waitAsync fixed point).           *)
(*                                                                         *)
(* One family: the root pipeline created by Pipeline.main plus the         *)
(* pipelines spawned from it.  Every promise the engine pushes on a        *)
(* pipeline's _promises list is a task: an item's chain (addSource), a     *)
(* file read followed by addSource (addFiles), or a spawned pipeline's     *)
(* join (spawn).  Each await of the code is a separate step, so tasks      *)
(* interleave the way the single-threaded event loop lets them.            *)
(***************************************************************************)
EXTENDS Integers, Sequences, FiniteSets, TLC

\* ---- bounds -------------------------------------------------------------
MaxPipes == 2     \* pipelines in the family, the root included
MaxItems == 2     \* distinct item paths
MaxReads == 1     \* file reads started by addFiles
MaxCb    == 1     \* user-registered transform callbacks (join specification)
ChainItems == 1   \* items of the stage-chain specification
ChainCb    == 2   \* user-registered transform callbacks (stage-chain specification)
SnapItems  == 1   \* items of the snapshot specification
SnapCb     == 2   \* user-registered transform callbacks (snapshot specification)
ReqReads   == 2   \* file reads started by addFiles and require (require specification)

Root  == 1
Pipes == 1..MaxPipes
Paths == 1..MaxItems
NoPipe == 0

Stages == <<"source", "resolve", "render", "output", "outputResolve">>
UserStages == {"source", "resolve", "output", "outputResolve"}

VARIABLES
    decl,     \* the init callback given to Pipeline.main: "running", "done", "failed"
    pipes,    \* per pipeline: gate, _promises, the four transform lists, spawn and join state
    items,    \* _allItems, the family registry: path -> item (pipe = NoPipe: not registered)
    reads,    \* the addFiles read tasks, in creation order
    nCb,      \* number of user callbacks registered so far
    declared, \* history: paths the declaration code declared by addSource/addFiles
    fam,      \* registry specification: pipeline paths, _items lists, _allItems with real paths
    mrg,      \* data specification: one addSource call's itemData, front matter and item data
    imp,      \* import specification: files, items and the import callbacks in progress
    tag,      \* tag specification: one replaceCommentTagsAsync call
    lin,      \* line specification: item.source during one replaceSourceTagsAsync call
    res,      \* resolve specification: one item in the built-in resolve transform
    out,      \* output specification: one item in the built-in output-resolve transform
    fc,       \* file specification: the FileCache of the family and its callers
    fl,       \* flush specification: the driver's loop over the items after the run
    mw        \* middleware specification: one item's run in the continuation-style design

\* The state of the scheduler, and the state of the four specifications
\* that look at one part of the engine on its own.
core == <<decl, pipes, items, reads, nCb, declared>>
ext == <<fam, mrg, imp, tag>>
units == <<lin, res, out, fc, fl, mw>>
vars == <<decl, pipes, items, reads, nCb, declared, fam, mrg, imp, tag, lin, res, out, fc, fl, mw>>

\* ---- callbacks ----------------------------------------------------------
\* A transform callback: its stage list and identity; id 0 is the built-in
\* of that stage (render: the parseAsync step of _transform).
Cb(stage, id) == [stage |-> stage, id |-> id]
BuiltinResolve == Cb("resolve", 0)
BuiltinOutputResolve == Cb("outputResolve", 0)
ParseStep == Cb("render", 0)

StageIndex(s) == CHOOSE k \in 1..Len(Stages) : Stages[k] = s

\* ---- initial state ------------------------------------------------------
\* What the running callback of an item awaits: nothing, another item's
\* waitAsync() (id: its path) or a call of a pipeline's waitAsync() (id:
\* the pipeline; wpc, wlen: the position and len of that call); n: the
\* awaits the callback has come back from.
NoWait == [kind |-> "none", id |-> 0, wpc |-> "none", wlen |-> 0, n |-> 0]

NoItem == [pipe |-> NoPipe, st |-> "none", inactive |-> FALSE, partial |-> FALSE,
           hasSource |-> FALSE, assetsDecl |-> "none", hasInit |-> FALSE,
           require |-> 0, funcs |-> <<>>, pos |-> 1, active |-> {}, skip |-> FALSE,
           output |-> FALSE, assets |-> FALSE, log |-> <<>>,
           partialAtRender |-> FALSE, own |-> FALSE, waitOn |-> NoWait]

NoPipeRec == [exists |-> FALSE, parent |-> NoPipe, startP |-> FALSE, promises |-> <<>>,
              source |-> <<>>, resolve |-> <<>>, output |-> <<>>, outputResolve |-> <<>>,
              spawnSt |-> "none", hasInit |-> FALSE, wpc |-> "none", wlen |-> 0,
              own |-> FALSE]

\* Pipeline.main: new Pipeline("", "") with the two built-in transforms; the
\* driver calls waitAsync() on it at once, which suspends on the start gate.
MainPipe == [NoPipeRec EXCEPT !.exists = TRUE,
                              !.resolve = <<BuiltinResolve>>,
                              !.outputResolve = <<BuiltinOutputResolve>>,
                              !.wpc = "gate"]

CoreInit ==
    /\ decl = "running"
    /\ pipes = [p \in Pipes |-> IF p = Root THEN MainPipe ELSE NoPipeRec]
    /\ items = [i \in Paths |-> NoItem]
    /\ reads = <<>>
    /\ nCb = 0
    /\ declared = {}

Idle == "idle"
ExtIdle == fam = Idle /\ mrg = Idle /\ imp = Idle /\ tag = Idle
UnitsIdle == lin = Idle /\ res = Idle /\ out = Idle /\ fc = Idle /\ fl = Idle /\ mw = Idle

Init ==
    /\ CoreInit
    /\ fam = Idle /\ mrg = Idle /\ imp = Idle /\ tag = Idle
    /\ UnitsIdle

\* ---- tasks: the entries of a pipeline's _promises ------------------------
ItemTask(i)  == <<"item", i>>
ReadTask(r)  == <<"read", r>>
SpawnTask(c) == <<"spawn", c>>

\* The promise spawn() pushes settles with the child's waitAsync(), or
\* rejects when the init callback throws.
SpawnStatus(c) ==
    IF pipes[c].spawnSt = "failed" \/ pipes[c].wpc = "failed" THEN "rejected"
    ELSE IF pipes[c].spawnSt = "join" /\ pipes[c].wpc = "done" THEN "fulfilled"
    ELSE "pending"

ItemStatus(i) ==
    IF items[i].st = "done" THEN "fulfilled"
    ELSE IF items[i].st = "failed" THEN "rejected"
    ELSE "pending"

ReadStatus(r) ==
    IF reads[r].st = "done" THEN "fulfilled"
    ELSE IF reads[r].st = "failed" THEN "rejected"
    ELSE "pending"

Status(t) ==
    IF t[1] = "item" THEN ItemStatus(t[2])
    ELSE IF t[1] = "read" THEN ReadStatus(t[2])
    ELSE SpawnStatus(t[2])

\* ---- who is running user code --------------------------------------------
DeclActor     == <<"decl", 0>>
ItemActor(i)  == <<"item", i>>
SpawnActor(c) == <<"spawn", c>>

UserCallbackActive(i) ==
    /\ items[i].st = "run"
    /\ items[i].waitOn.kind = "none"
    /\ \E k \in items[i].active : items[i].funcs[k].id > 0

Running(a) ==
    IF a[1] = "decl" THEN decl = "running"
    ELSE IF a[1] = "item" THEN UserCallbackActive(a[2])
    ELSE pipes[a[2]].spawnSt = "init"

Actors == {DeclActor} \cup {ItemActor(i) : i \in Paths} \cup {SpawnActor(c) : c \in Pipes}

\* History: a task pushed on p's list by this actor is awaited by p's join
\* through the actor's own promise (the declaration code runs before any
\* gate opens; a spawn's init runs before the child's join starts).
OwnFor(a, p) ==
    IF a[1] = "decl" THEN TRUE
    ELSE IF a[1] = "item" THEN items[a[2]].pipe = p /\ items[a[2]].own
    ELSE p = a[2] \/ (p = pipes[a[2]].parent /\ pipes[a[2]].own)

\* ---- addSource / addFiles ------------------------------------------------
\* What the caller passes to addSource: itemData, the text (front matter
\* and markdown) and the init function, reduced to what the engine reads.
Plain == [inactive |-> FALSE, partial |-> FALSE, hasSource |-> TRUE,
          assetsDecl |-> "none", hasInit |-> FALSE, require |-> 0]

\* Inputs of the join specification: items without front matter or init.
JoinInputs == { Plain }

\* Inputs of the gate specification: items with and without an init function.
GateInputs == { Plain, [Plain EXCEPT !.hasInit = TRUE] }

\* Inputs of the stage-chain specification: what matters to _transform.
ChainInputs ==
    { Plain,
      [Plain EXCEPT !.inactive = TRUE, !.assetsDecl = "ok"],
      [Plain EXCEPT !.partial = TRUE, !.assetsDecl = "ok"],
      [Plain EXCEPT !.assetsDecl = "bad"],
      [Plain EXCEPT !.hasInit = TRUE, !.hasSource = FALSE] }

NewItem(p, inp, own) ==
    [NoItem EXCEPT !.pipe = p, !.st = "gate", !.inactive = inp.inactive,
                   !.partial = inp.partial, !.hasSource = inp.hasSource,
                   !.assetsDecl = inp.assetsDecl, !.hasInit = inp.hasInit,
                   !.require = inp.require, !.own = own]

NewRead(p, path, own) ==
    [pipe |-> p, path |-> path, st |-> "reading", own |-> own, dup |-> FALSE]

\* find(itemPath) / _allItems.has(itemPath)
Has(registry, path) == registry[path].pipe # NoPipe
find(path) == IF Has(items, path) THEN path ELSE 0

\* addSource(id, text, itemData, assets, init) on pipeline p, the path free:
\* registers the item, pushes its promise, then hands data.require to
\* addFiles, which pushes a read unless the path is registered already.
\* baseReads is the reads list the call starts from.
AddSourceEffect(p, path, inp, own, baseReads) ==
    LET registry == [items EXCEPT ![path] = NewItem(p, inp, own)]
        needRead == inp.require # 0 /\ ~Has(registry, inp.require)
        pushed   == Append(pipes[p].promises, ItemTask(path))
    IN  /\ needRead => Len(baseReads) < ReqReads
        /\ items' = registry
        /\ reads' = IF needRead
                    THEN Append(baseReads, NewRead(p, inp.require, own))
                    ELSE baseReads
        /\ pipes' = [pipes EXCEPT ![p].promises =
                        IF needRead THEN Append(pushed, ReadTask(Len(baseReads) + 1))
                        ELSE pushed]

\* A duplicate path makes addSource throw before it changes anything; the
\* caller may catch the error or fail with it (ItemInitThrow, CallbackThrow...).
AddSource(a, p, path, inp) ==
    /\ Running(a)
    /\ pipes[p].exists
    /\ ~Has(items, path)
    /\ \A q \in Paths : q < path => Has(items, q)   \* ids are taken in order
    /\ AddSourceEffect(p, path, inp, OwnFor(a, p), reads)
    /\ declared' = IF a = DeclActor THEN declared \cup {path} ELSE declared
    /\ UNCHANGED <<units, ext, decl, nCb>>

\* addFiles(fileName) on pipeline p: skipped when the path is registered,
\* otherwise the promise of "read the file, then addSource" is pushed.
AddFiles(a, p, path) ==
    /\ Running(a)
    /\ pipes[p].exists
    /\ ~Has(items, path)
    /\ reads' = Append(reads, NewRead(p, path, OwnFor(a, p)))
    /\ pipes' = [pipes EXCEPT ![p].promises = Append(@, ReadTask(Len(reads) + 1))]
    /\ declared' = IF a = DeclActor THEN declared \cup {path} ELSE declared
    /\ UNCHANGED <<units, ext, decl, items, nCb>>

\* The read completes and the async function calls addSource with the text;
\* a path registered in the meantime makes it throw, which rejects the promise.
ReadDone(r, inp) ==
    /\ r \in 1..Len(reads)
    /\ reads[r].st = "reading"
    /\ IF Has(items, reads[r].path)
       THEN /\ reads' = [reads EXCEPT ![r].st = "failed", ![r].dup = TRUE]
            /\ UNCHANGED <<units, ext, items, pipes>>
       ELSE AddSourceEffect(reads[r].pipe, reads[r].path, inp, reads[r].own,
                            [reads EXCEPT ![r].st = "done"])
    /\ UNCHANGED <<units, ext, decl, nCb, declared>>

\* The file does not exist, or reading it fails.
ReadFail(r) ==
    /\ r \in 1..Len(reads)
    /\ reads[r].st = "reading"
    /\ reads' = [reads EXCEPT ![r].st = "failed"]
    /\ UNCHANGED <<units, ext, decl, pipes, items, nCb, declared>>

\* ---- spawn / transform registration --------------------------------------
NextPipe == CHOOSE c \in Pipes : ~pipes[c].exists /\ \A d \in Pipes : d < c => pipes[d].exists

\* spawn(relativePath, outputPath, init) on pipeline p: the child copies the
\* four transform lists as they are now and shares the registry; the promise
\* that waits for the child is pushed on p's list.
Spawn(a, p, withInit) ==
    /\ Running(a)
    /\ pipes[p].exists
    /\ \E c \in Pipes : ~pipes[c].exists
    /\ pipes' = [pipes EXCEPT
                   ![NextPipe] = [NoPipeRec EXCEPT
                        !.exists = TRUE, !.parent = p,
                        !.source = pipes[p].source, !.resolve = pipes[p].resolve,
                        !.output = pipes[p].output,
                        !.outputResolve = pipes[p].outputResolve,
                        !.spawnSt = "gate", !.hasInit = withInit,
                        !.own = OwnFor(a, p)],
                   ![p].promises = Append(@, SpawnTask(NextPipe))]
    /\ UNCHANGED <<units, ext, decl, items, reads, nCb, declared>>

\* Registration that also reaches the pipelines spawned from p earlier.
AddTransformPropagated(a, p, stage) ==
    /\ Running(a)
    /\ pipes[p].exists
    /\ nCb' = nCb + 1
    /\ pipes' = [q \in Pipes |->
                   IF q = p \/ (pipes[q].exists /\ pipes[q].parent = p)
                   THEN [pipes[q] EXCEPT ![stage] = Append(@, Cb(stage, nCb + 1))]
                   ELSE pipes[q]]
    /\ UNCHANGED <<units, ext, decl, items, reads, declared>>

\* Registration that also reaches the chains of p's items that are running,
\* as if _transform iterated over the pipeline's own lists.
AddTransformLive(a, p, stage) ==
    /\ Running(a)
    /\ pipes[p].exists
    /\ nCb' = nCb + 1
    /\ pipes' = [pipes EXCEPT ![p][stage] = Append(@, Cb(stage, nCb + 1))]
    /\ items' = [i \in Paths |->
                   IF items[i].pipe = p /\ items[i].st = "run"
                   THEN [items[i] EXCEPT !.funcs =
                            pipes'[p].source \o pipes'[p].resolve \o <<ParseStep>>
                                \o pipes'[p].output \o pipes'[p].outputResolve]
                   ELSE items[i]]
    /\ UNCHANGED <<units, ext, decl, reads, declared>>

\* addSourceTransform / addResolveTransform / addOutputTransform /
\* addOutputResolveTransform on pipeline p.
AddTransform(a, p, stage) ==
    /\ Running(a)
    /\ pipes[p].exists
    /\ nCb' = nCb + 1
    /\ pipes' = [pipes EXCEPT ![p][stage] = Append(@, Cb(stage, nCb + 1))]
    /\ UNCHANGED <<units, ext, decl, items, reads, declared>>

\* An item's init function or one of its callbacks sets item.data.inactive
\* or item.data.partial.
SetInactive(i) ==
    /\ Running(ItemActor(i))
    /\ ~items[i].inactive
    /\ items' = [items EXCEPT ![i].inactive = TRUE]
    /\ UNCHANGED <<units, ext, decl, pipes, reads, nCb, declared>>

SetPartial(i) ==
    /\ Running(ItemActor(i))
    /\ ~items[i].partial
    /\ items' = [items EXCEPT ![i].partial = TRUE]
    /\ UNCHANGED <<units, ext, decl, pipes, reads, nCb, declared>>

\* ---- Pipeline.main --------------------------------------------------------
\* Promise.resolve(pipeline).then(init).then(() => pipeline._resolveStart())
DeclDone ==
    /\ decl = "running"
    /\ decl' = "done"
    /\ UNCHANGED <<units, ext, pipes, items, reads, nCb, declared>>

DeclThrow ==
    /\ decl = "running"
    /\ decl' = "failed"
    /\ UNCHANGED <<units, ext, pipes, items, reads, nCb, declared>>

\* _resolveStart() called without waiting for init.
InitNotAwaited == TRUE

\* .then(init).then(...): the gate is opened once init has fulfilled
InitSettled == decl = "done"

MainResolveStart ==
    /\ InitSettled
    /\ ~pipes[Root].startP
    /\ pipes' = [pipes EXCEPT ![Root].startP = TRUE]
    /\ UNCHANGED <<units, ext, decl, items, reads, nCb, declared>>

\* ---- the spawn promise ----------------------------------------------------
\* result._resolveStart(); await result.waitAsync(): the child's gate opens
\* and its join starts, suspended on that gate.
OpenChild(rec) == [rec EXCEPT !.startP = TRUE, !.spawnSt = "join", !.wpc = "gate"]

\* The child's gate opened before its init callback is awaited.
SpawnStartGateFirst(c) ==
    /\ pipes[c].spawnSt = "gate"
    /\ pipes[pipes[c].parent].startP
    /\ pipes' = [pipes EXCEPT ![c] = IF @.hasInit
                                     THEN [@ EXCEPT !.spawnSt = "init", !.startP = TRUE]
                                     ELSE OpenChild(@)]
    /\ UNCHANGED <<units, ext, decl, items, reads, nCb, declared>>

\* await this._startP (the parent's gate), then init if there is one
SpawnStart(c) ==
    /\ pipes[c].spawnSt = "gate"
    /\ pipes[pipes[c].parent].startP
    /\ pipes' = [pipes EXCEPT ![c] = IF @.hasInit THEN [@ EXCEPT !.spawnSt = "init"]
                                     ELSE OpenChild(@)]
    /\ UNCHANGED <<units, ext, decl, items, reads, nCb, declared>>

SpawnInitDone(c) ==
    /\ pipes[c].spawnSt = "init"
    /\ pipes' = [pipes EXCEPT ![c] = OpenChild(@)]
    /\ UNCHANGED <<units, ext, decl, items, reads, nCb, declared>>

SpawnInitThrow(c) ==
    /\ pipes[c].spawnSt = "init"
    /\ pipes' = [pipes EXCEPT ![c].spawnSt = "failed"]
    /\ UNCHANGED <<units, ext, decl, items, reads, nCb, declared>>

\* ---- waitAsync ------------------------------------------------------------
\* Promise.all(this._promises) is taken over the list as it is at the call:
\* its first wlen entries.
Snapshot(p) == { pipes[p].promises[k] : k \in 1..pipes[p].wlen }

\* A join that awaits only the tasks known at its first Promise.all.
LoopOnce(p, len) == len = 0 /\ Len(pipes[p].promises) > 0

\* while (this._promises.length >= len)
LoopNoGrowth(p, len) == Len(pipes[p].promises) >= len

\* while (this._promises.length > len)
LoopAgain(p, len) == Len(pipes[p].promises) > len

\* One evaluation of the loop head after an await: another round over the
\* list as it is now, or return.
LoopHead(rec, again) ==
    IF again THEN [rec EXCEPT !.wpc = "all", !.wlen = Len(rec.promises)]
    ELSE [rec EXCEPT !.wpc = "done"]

\* await this._startP; let len = 0; first test of the loop
WaitStart(p) ==
    /\ pipes[p].wpc = "gate"
    /\ pipes[p].startP
    /\ pipes' = [pipes EXCEPT ![p] = LoopHead(@, LoopAgain(p, 0))]
    /\ UNCHANGED <<units, ext, decl, items, reads, nCb, declared>>

\* Promise.all fulfils: every promise of the snapshot has fulfilled
WaitRound(p) ==
    /\ pipes[p].wpc = "all"
    /\ \A t \in Snapshot(p) : Status(t) = "fulfilled"
    /\ pipes' = [pipes EXCEPT ![p] = LoopHead(@, LoopAgain(p, pipes[p].wlen))]
    /\ UNCHANGED <<units, ext, decl, items, reads, nCb, declared>>

\* Promise.all rejects: some promise of the snapshot has rejected
WaitReject(p) ==
    /\ pipes[p].wpc = "all"
    /\ \E t \in Snapshot(p) : Status(t) = "rejected"
    /\ pipes' = [pipes EXCEPT ![p].wpc = "failed"]
    /\ UNCHANGED <<units, ext, decl, items, reads, nCb, declared>>

\* ---- _transform: one item's chain -----------------------------------------
\* The render step placed before the resolve stage.
TransformFuncsMisordered(p) ==
    pipes[p].source \o <<ParseStep>> \o pipes[p].resolve
        \o pipes[p].output \o pipes[p].outputResolve

\* let funcs = [...source, ...resolve, parseAsync, ...output, ...outputResolve]
TransformFuncs(p) ==
    pipes[p].source \o pipes[p].resolve \o <<ParseStep>>
        \o pipes[p].output \o pipes[p].outputResolve

\* f(item) called without `await`.
NotAwaited(i) == TRUE

\* `await f(item)`: the loop goes on once the promise of the callback it
\* started has settled.
AwaitSettled(i) == items[i].active = {}

\* The test without data.inactive.
StopOnSkipOnly(rec) == rec.skip

\* if (item.data.inactive || skip) return;
StopChain(rec) == rec.inactive \/ rec.skip

EnterTransform(rec) == [rec EXCEPT !.st = "run", !.funcs = TransformFuncs(rec.pipe)]

\* await this._startP; if (init) await init(item); await this._transform(item)
ItemStart(i) ==
    /\ items[i].st = "gate"
    /\ pipes[items[i].pipe].startP
    /\ items' = [items EXCEPT ![i] = IF @.hasInit THEN [@ EXCEPT !.st = "init"]
                                     ELSE EnterTransform(@)]
    /\ UNCHANGED <<units, ext, decl, pipes, reads, nCb, declared>>

ItemInitDone(i) ==
    /\ items[i].st = "init"
    /\ items' = [items EXCEPT ![i] = EnterTransform(@)]
    /\ UNCHANGED <<units, ext, decl, pipes, reads, nCb, declared>>

ItemInitThrow(i) ==
    /\ items[i].st = "init"
    /\ items' = [items EXCEPT ![i].st = "failed"]
    /\ UNCHANGED <<units, ext, decl, pipes, reads, nCb, declared>>

\* parseAsync that does not set skip for a partial item.
CallFuncNoSkip(rec, k) ==
    [rec EXCEPT !.active = @ \cup {k},
                !.pos = k + 1,
                !.log = Append(@, rec.funcs[k]),
                !.partialAtRender = IF rec.funcs[k] = ParseStep THEN rec.partial ELSE @]

\* The call f(item) of the loop.  parseAsync, up to its await: data.partial
\* sets skip.
CallFunc(rec, k) ==
    [rec EXCEPT !.active = @ \cup {k},
                !.pos = k + 1,
                !.log = Append(@, rec.funcs[k]),
                !.skip = IF rec.funcs[k] = ParseStep THEN rec.partial ELSE @,
                !.partialAtRender = IF rec.funcs[k] = ParseStep THEN rec.partial ELSE @]

\* One turn of `for (let f of funcs)`: return when the list is exhausted or
\* the item is inactive or skipped, else call the next function.
ItemStep(i) ==
    /\ items[i].st = "run"
    /\ AwaitSettled(i)
    /\ items' = [items EXCEPT ![i] =
                    IF @.pos > Len(@.funcs) \/ StopChain(@)
                    THEN [@ EXCEPT !.st = "done"]
                    ELSE CallFunc(@, @.pos)]
    /\ UNCHANGED <<units, ext, decl, pipes, reads, nCb, declared>>

\* What a function has done to the item when its promise fulfils:
\* parseAsync sets item.output when the source is not empty (and the item
\* not partial); the built-in resolve transform attaches data.assets.
ReturnEffect(rec, k) ==
    IF rec.funcs[k] = ParseStep
    THEN [rec EXCEPT !.output = @ \/ (~rec.partialAtRender /\ rec.hasSource)]
    ELSE IF rec.funcs[k] = BuiltinResolve
    THEN [rec EXCEPT !.assets = @ \/ (rec.assetsDecl = "ok")]
    ELSE rec

\* the built-in resolve transform throws on an asset entry that lacks
\* input or output
BuiltinThrows(rec, k) == rec.funcs[k] = BuiltinResolve /\ rec.assetsDecl = "bad"

Returned(rec, k) == [ReturnEffect(rec, k) EXCEPT !.active = @ \ {k}, !.waitOn = NoWait]
Thrown(rec, k)   == [rec EXCEPT !.st = "failed", !.active = @ \ {k}, !.waitOn = NoWait]

\* the promise of callback k fulfils
CallbackReturn(i, k) ==
    /\ items[i].st = "run"
    /\ k \in items[i].active
    /\ items[i].waitOn.kind = "none"
    /\ ~BuiltinThrows(items[i], k)
    /\ items' = [items EXCEPT ![i] = Returned(@, k)]
    /\ UNCHANGED <<units, ext, decl, pipes, reads, nCb, declared>>

\* callback k throws or its promise rejects: a user callback at will, a
\* built-in one when BuiltinThrows
CallbackThrow(i, k) ==
    /\ items[i].st = "run"
    /\ k \in items[i].active
    /\ items[i].waitOn.kind = "none"
    /\ items[i].funcs[k].id > 0 \/ BuiltinThrows(items[i], k)
    /\ items' = [items EXCEPT ![i] = Thrown(@, k)]
    /\ UNCHANGED <<units, ext, decl, pipes, reads, nCb, declared>>

\* The loop of _transform run through its built-in functions in one step:
\* it stops at the call of the next user callback, at the end of the chain,
\* or at the first built-in function that throws.  The built-in functions
\* touch nothing but the item itself, so their steps commute with every
\* other task's; the join specification takes them together.
RECURSIVE Advance(_)
Advance(rec) ==
    IF rec.pos > Len(rec.funcs) \/ StopChain(rec) THEN [rec EXCEPT !.st = "done"]
    ELSE IF rec.funcs[rec.pos].id > 0 THEN CallFunc(rec, rec.pos)
    ELSE IF BuiltinThrows(rec, rec.pos) THEN Thrown(CallFunc(rec, rec.pos), rec.pos)
    ELSE Advance(Returned(CallFunc(rec, rec.pos), rec.pos))

ItemRun(i) ==
    /\ items[i].st = "run"
    /\ AwaitSettled(i)
    /\ items' = [items EXCEPT ![i] = Advance(@)]
    /\ UNCHANGED <<units, ext, decl, pipes, reads, nCb, declared>>

\* ---- specification --------------------------------------------------------
\* The join specification: the declaration code, stage callbacks and spawn
\* init callbacks add items and spawn pipelines at any time, on any pipeline
\* of the family; callbacks throw at will.
CallbackActors == {ItemActor(i) : i \in Paths} \cup {SpawnActor(c) : c \in Pipes}

Next ==
    \/ DeclDone
    \/ DeclThrow
    \/ MainResolveStart
    \/ \E p \in Pipes, path \in Paths : AddSource(DeclActor, p, path, Plain)
    \/ \E a \in CallbackActors, p \in Pipes, path \in Paths : AddSource(a, p, path, Plain)
    \/ \E p \in Pipes, withInit \in BOOLEAN : Spawn(DeclActor, p, withInit)
    \/ \E a \in CallbackActors, p \in Pipes, withInit \in BOOLEAN : Spawn(a, p, withInit)
    \/ nCb < MaxCb /\ AddTransform(DeclActor, Root, "source")
    \/ \E c \in Pipes : SpawnStart(c)
    \/ \E c \in Pipes : SpawnInitDone(c)
    \/ \E c \in Pipes : SpawnInitThrow(c)
    \/ \E p \in Pipes : WaitStart(p)
    \/ \E p \in Pipes : WaitRound(p)
    \/ \E p \in Pipes : WaitReject(p)
    \/ \E i \in Paths : ItemStart(i)
    \/ \E i \in Paths : ItemRun(i)
    \/ \E i \in Paths, k \in 1..(MaxCb + 3) : CallbackReturn(i, k)
    \/ \E i \in Paths, k \in 1..(MaxCb + 3) : CallbackThrow(i, k)

Spec == Init /\ [][Next]_vars

\* The gate specification: what the declaration code and the spawn init
\* callbacks declare (items with and without init, files, pipelines) and how
\* the gates let it run; only the built-in transforms are registered.
NextGate ==
    \/ DeclDone
    \/ DeclThrow
    \/ MainResolveStart
    \/ \E p \in Pipes, path \in Paths, inp \in GateInputs : AddSource(DeclActor, p, path, inp)
    \/ \E c \in Pipes, path \in Paths, inp \in GateInputs : AddSource(SpawnActor(c), c, path, inp)
    \/ \E p \in Pipes, path \in Paths : Len(reads) < MaxReads /\ AddFiles(DeclActor, p, path)
    \/ \E r \in 1..MaxReads : ReadDone(r, Plain)   \* addSource(fileName, text): no init
    \/ \E r \in 1..MaxReads : ReadFail(r)
    \/ \E p \in Pipes, withInit \in BOOLEAN : Spawn(DeclActor, p, withInit)
    \/ \E c \in Pipes : SpawnStart(c)
    \/ \E c \in Pipes : SpawnInitDone(c)
    \/ \E c \in Pipes : SpawnInitThrow(c)
    \/ \E p \in Pipes : WaitStart(p)
    \/ \E p \in Pipes : WaitRound(p)
    \/ \E p \in Pipes : WaitReject(p)
    \/ \E i \in Paths : ItemStart(i)
    \/ \E i \in Paths : ItemInitDone(i)
    \/ \E i \in Paths : ItemInitThrow(i)
    \/ \E i \in Paths : ItemRun(i)

SpecGate == Init /\ [][NextGate]_vars

\* The snapshot specification: the declaration code registers callbacks on
\* any pipeline, before and after a spawn, before and after items are added;
\* a running stage callback registers callbacks on its item's pipeline.  One
\* stage before and one after the render step.
SnapPaths == 1..SnapItems
SnapStages == {"resolve", "output"}

NextSnap ==
    \/ DeclDone
    \/ MainResolveStart
    \/ Spawn(DeclActor, Root, FALSE)
    \/ \E p \in Pipes, path \in SnapPaths : AddSource(DeclActor, p, path, Plain)
    \/ \E p \in Pipes, stage \in SnapStages :
          nCb < SnapCb /\ AddTransform(DeclActor, p, stage)
    \/ \E i \in SnapPaths, stage \in SnapStages :
          nCb < SnapCb /\ AddTransform(ItemActor(i), items[i].pipe, stage)
    \/ \E c \in Pipes : SpawnStart(c)
    \/ \E i \in SnapPaths : ItemStart(i)
    \/ \E i \in SnapPaths : ItemRun(i)
    \/ \E i \in SnapPaths, k \in 1..(SnapCb + 3) : CallbackReturn(i, k)

SpecSnap == Init /\ [][NextSnap]_vars

\* The require specification: the declaration code adds items and files to
\* the root pipeline; an item's front matter, in memory or in a file that
\* was read, may require the other path.
ReqInputs == { Plain } \cup { [Plain EXCEPT !.require = q] : q \in Paths }

NextReq ==
    \/ DeclDone
    \/ MainResolveStart
    \/ \E path \in Paths, inp \in ReqInputs :
          inp.require # path /\ AddSource(DeclActor, Root, path, inp)
    \/ \E path \in Paths : Len(reads) < ReqReads /\ AddFiles(DeclActor, Root, path)
    \/ \E r \in 1..ReqReads, inp \in ReqInputs :
          r <= Len(reads) /\ inp.require # reads[r].path /\ ReadDone(r, inp)
    \/ \E r \in 1..ReqReads : ReadFail(r)
    \/ WaitStart(Root)
    \/ WaitRound(Root)
    \/ WaitReject(Root)
    \/ \E i \in Paths : ItemStart(i)
    \/ \E i \in Paths : ItemRun(i)

SpecReq == Init /\ [][NextReq]_vars

\* The stage-chain specification: items of the root pipeline with every
\* kind of data, and user callbacks that the declaration code registers in
\* any of the four stage lists; every call and every return of the loop of
\* _transform is a step of its own.
ChainPaths == 1..ChainItems

NextChain ==
    \/ DeclDone
    \/ MainResolveStart
    \/ \E path \in ChainPaths, inp \in ChainInputs : AddSource(DeclActor, Root, path, inp)
    \/ \E stage \in UserStages : nCb < ChainCb /\ AddTransform(DeclActor, Root, stage)
    \/ \E i \in ChainPaths : SetInactive(i)
    \/ \E i \in ChainPaths : SetPartial(i)
    \/ \E i \in ChainPaths : ItemStart(i)
    \/ \E i \in ChainPaths : ItemInitDone(i)
    \/ \E i \in ChainPaths : ItemInitThrow(i)
    \/ \E i \in ChainPaths : ItemStep(i)
    \/ \E i \in ChainPaths, k \in 1..(ChainCb + 3) : CallbackReturn(i, k)
    \/ \E i \in ChainPaths, k \in 1..(ChainCb + 3) : CallbackThrow(i, k)

SpecChain == Init /\ [][NextChain]_vars

\* ==========================================================================
\* Properties
\* ==========================================================================
Unsettled(i) == items[i].st \in {"gate", "init", "run"}

Own(t) ==
    IF t[1] = "item" THEN items[t[2]].own
    ELSE IF t[1] = "read" THEN reads[t[2]].own
    ELSE pipes[t[2]].own

UserLogged(i) == \E n \in 1..Len(items[i].log) : items[i].log[n].id > 0

\* p's waitAsync() can go on: its gate is open, or the Promise.all it awaits
\* has settled
JoinCanStep(p) == ENABLED (WaitStart(p) \/ WaitRound(p) \/ WaitReject(p))

JoinPending(p) == pipes[p].wpc \in {"gate", "all"}

\* C1 -- Family-wide quiescence: when the root pipeline's waitAsync() has
\* fulfilled, no item of any pipeline of the family is still running its
\* chain, whichever pipeline the stage callbacks added it to.
C1_FamilyQuiescent ==
    pipes[Root].wpc = "done" => \A i \in Paths : ~Unsettled(i)

\* C2 -- Quiescence completeness on one pipeline: when p.waitAsync() has
\* fulfilled, every task that p's own items (and the tasks they added to p,
\* to any depth) pushed on p's list has fulfilled, and all of them were part
\* of the last round's Promise.all.
C2_OwnTasksJoined ==
    \A p \in Pipes :
        pipes[p].wpc = "done" =>
            \A n \in 1..Len(pipes[p].promises) :
                Own(pipes[p].promises[n]) =>
                    /\ n <= pipes[p].wlen
                    /\ Status(pipes[p].promises[n]) = "fulfilled"

\* The root join has fulfilled after two rounds or more: an item that a
\* stage callback of another root item added while the join was waiting
\* has been joined (no spawn init callback exists that could have added it).
C2_Witness ==
    /\ pipes[Root].wpc = "done"
    /\ \A c \in Pipes : ~pipes[c].hasInit
    /\ \E i, j \in Paths :
          /\ i # j
          /\ items[i].pipe = Root /\ items[j].pipe = Root
          /\ UserLogged(j)
          /\ items[i].own /\ i \notin declared
          /\ items[i].st = "done"

\* C3 -- Fail-fast join: once the chain of an item has rejected while the
\* root waitAsync() is pending, the root join can go on (to reject) without
\* any other task settling first.  Stated for the items of the root
\* pipeline that the root join awaits.
C3_FailFast ==
    \A i \in Paths :
        (/\ items[i].st = "failed"
         /\ items[i].pipe = Root
         /\ items[i].own
         /\ JoinPending(Root)) => JoinCanStep(Root)

\* C4 -- An error of the declaration callback given to Pipeline.main
\* rejects the root waitAsync(): once the callback has failed, the root join
\* has rejected or can go on.
C4_DeclErrorRejectsJoin ==
    decl = "failed" => (pipes[Root].wpc = "failed" \/ JoinCanStep(Root))

\* C9 -- Start gate: no item init function and no stage callback has run
\* for any item of the family unless the root gate is open, and the root
\* gate is open only if the declaration callback has completed.
C9_StartGate ==
    /\ \A i \in Paths :
          (items[i].st \in {"init", "run", "done", "failed"} \/ items[i].log # <<>>)
              => pipes[Root].startP
    /\ pipes[Root].startP => decl = "done"

\* An item of a spawned pipeline has run its init function and its chain.
C9_Witness ==
    \E i \in Paths :
        /\ items[i].pipe # Root /\ items[i].pipe # NoPipe
        /\ items[i].hasInit
        /\ items[i].log # <<>>

ReadFailed(path) ==
    \E r \in 1..Len(reads) : reads[r].path = path /\ reads[r].st = "failed"

\* C10 -- No partially declared graph: once any stage callback has run,
\* every path the declaration code declared by addSource or addFiles is in
\* the family registry (unless reading its file failed).
C10_DeclaredRegistered ==
    (\E i \in Paths : items[i].log # <<>>) =>
        \A d \in declared : find(d) = d \/ ReadFailed(d)

\* ---- the stage chain of one item ------------------------------------------
StageOf(cb) == StageIndex(cb.stage)

LoggedStages(i) == { items[i].log[n].stage : n \in 1..Len(items[i].log) }

\* C5 -- Stage order per item: the functions of an item's chain are called
\* in the order source, resolve, render, output, output-resolve, and while
\* a function is still running nothing of a later stage has been called.
C5_StageOrder ==
    \A i \in Paths :
        LET l == items[i].log IN
        /\ \A a, b \in 1..Len(l) : a < b => StageOf(l[a]) <= StageOf(l[b])
        /\ \A k \in items[i].active, b \in 1..Len(l) :
              StageOf(l[b]) <= StageOf(items[i].funcs[k])

\* An item has finished a chain that called functions of all five stages.
C5_Witness ==
    \E i \in Paths :
        /\ items[i].st = "done"
        /\ LoggedStages(i) = {Stages[n] : n \in 1..Len(Stages)}

AtBoundary(rec) == rec.st = "run" /\ rec.active = {}

\* C7 -- inactive short-circuit: an item whose data.inactive is true when
\* its chain is between two functions (or before the first) only completes:
\* no function is called, no output and no asset is added, and the item's
\* promise fulfils; a fulfilled item never changes again.
C7_InactiveStops ==
    [][\A i \in Paths :
          /\ (AtBoundary(items[i]) /\ items[i].inactive) =>
                items'[i] \in {items[i], [items[i] EXCEPT !.st = "done"]}
          /\ items[i].st = "done" => items'[i] = items[i]]_vars

\* An item with front-matter assets was made inactive by its first
\* callback, a user callback, and has completed there: nothing else was
\* called, no asset and no output attached.
C7_Witness ==
    \E i \in Paths :
        /\ items[i].st = "done"
        /\ items[i].inactive
        /\ Len(items[i].log) = 1
        /\ UserLogged(i)
        /\ Len(items[i].funcs) > 1
        /\ items[i].assetsDecl = "ok"
        /\ ~items[i].assets
        /\ ~items[i].output

RenderIndex(i) == CHOOSE n \in 1..Len(items[i].funcs) : items[i].funcs[n] = ParseStep

\* C8 -- partial short-circuit: for an item whose data.partial was true when
\* the render step was reached, every source- and resolve-stage callback
\* has been called and has returned (front-matter assets attached), the
\* render step is the last function called, and the item has no output.
C8_PartialSkipsOutput ==
    \A i \in Paths :
        items[i].partialAtRender =>
            /\ ~items[i].output
            /\ items[i].log = SubSeq(items[i].funcs, 1, RenderIndex(i))
            /\ items[i].active \subseteq {RenderIndex(i)}
            /\ items[i].assetsDecl = "ok" => items[i].assets
            /\ items[i].st \in {"run", "done"}

\* A partial item with front-matter assets has completed, a user callback
\* having run before the render step and one being registered after it.
C8_Witness ==
    \E i \in Paths :
        /\ items[i].partialAtRender
        /\ items[i].st = "done"
        /\ items[i].assets
        /\ UserLogged(i)
        /\ Len(items[i].funcs) > RenderIndex(i) + 1

\* ---- require and addFiles ---------------------------------------------------
\* The resolve stage of item i is over: the built-in resolve transform was
\* called and the chain has completed or gone on to the render step.
ResolveStageDone(i) ==
    /\ \E n \in 1..Len(items[i].log) : items[i].log[n] = BuiltinResolve
    /\ \/ items[i].st = "done"
       \/ \E n \in 1..Len(items[i].log) : items[i].log[n] = ParseStep

\* C12 -- require/addFiles deduplication: no read started by addFiles or by
\* a require list ends with the duplicate-item error of addSource, in
\* whatever order the pending reads complete.
C12_NoDuplicateError ==
    \A r \in 1..Len(reads) : ~reads[r].dup

\* C13 -- Required-file availability: once the resolve stage of an item
\* whose front matter requires a path has completed, that path is in the
\* family registry (unless reading the file failed).
C13_RequiredRegistered ==
    \A i \in Paths :
        (items[i].require # 0 /\ ResolveStageDone(i)) =>
            (find(items[i].require) = items[i].require \/ ReadFailed(items[i].require))

\* ---- transform lists --------------------------------------------------------
Lists(rec) == [stage \in UserStages |-> rec[stage]]

UserCbs(funcs) == { funcs[n] : n \in { m \in 1..Len(funcs) : funcs[m].id > 0 } }

ListedCbs(rec) == UNION { UserCbs(rec[stage]) : stage \in UserStages }

\* The callbacks that run for item i: the funcs array of its _transform call,
\* or, before that call, what the array would hold if the call were made now.
ChainFor(i) ==
    IF items[i].st \in {"gate", "init"} THEN TransformFuncs(items[i].pipe)
    ELSE items[i].funcs

\* C14 -- Spawn snapshot: a child starts with the four lists its parent has
\* at the spawn call; from then on a registration changes the lists of the
\* one pipeline it is made on, so one made on the parent never reaches the
\* child; the chain of a child's item holds callbacks of the child's lists
\* only, and only those are called.
C14_SpawnSnapshot ==
    [][/\ \A c \in Pipes :
            (~pipes[c].exists /\ pipes'[c].exists) =>
                Lists(pipes'[c]) = Lists(pipes[pipes'[c].parent])
       /\ \A c, d \in Pipes :
            (pipes[c].exists /\ pipes[d].exists /\ c # d
                /\ Lists(pipes'[c]) # Lists(pipes[c])) => Lists(pipes'[d]) = Lists(pipes[d])
       /\ \A i \in Paths :
            items'[i].st \in {"run", "done", "failed"} =>
                /\ UserCbs(items'[i].funcs) \subseteq ListedCbs(pipes'[items'[i].pipe])
                /\ UserCbs(items'[i].log) \subseteq UserCbs(items'[i].funcs)]_vars

\* An item of a spawned pipeline has completed; a callback registered on the
\* parent before the spawn was called for it, and the parent holds a
\* callback, registered after the spawn, that was not.
C14_Witness ==
    \E i \in Paths :
        /\ items[i].pipe # Root /\ items[i].st = "done"
        /\ UserCbs(items[i].log) # {}
        /\ UserCbs(items[i].log) \subseteq ListedCbs(pipes[Root])
        /\ ListedCbs(pipes[Root]) \ ListedCbs(pipes[items[i].pipe]) # {}

ItemStarted(i) == items[i].st \in {"init", "run", "done", "failed"} \/ items[i].log # <<>>

\* C17 -- Spawn init ordering: the init callback of a spawned pipeline is
\* entered from the waiting state only, with the parent's gate open, and is
\* never entered again once it has settled; no item of the child has started
\* its init function or its chain unless the child's init has fulfilled.
C17_SpawnInitOrder ==
    [][\A c \in Pipes :
          /\ (pipes'[c].spawnSt = "init" /\ pipes[c].spawnSt # "init") =>
                (pipes[c].spawnSt = "gate" /\ pipes[pipes[c].parent].startP)
          /\ pipes[c].spawnSt \in {"join", "failed"} => pipes'[c].spawnSt = pipes[c].spawnSt
          /\ \A i \in Paths :
                (items'[i].pipe = c /\ pipes'[c].hasInit /\ ItemStarted(i)') =>
                    pipes'[c].spawnSt = "join"]_vars

\* An item that the init callback of a spawned pipeline added to that
\* pipeline has completed its chain.
C17_Witness ==
    \E i \in Paths :
        /\ items[i].pipe # Root /\ items[i].pipe # NoPipe
        /\ pipes[items[i].pipe].hasInit
        /\ i \notin declared
        /\ items[i].st = "done"
        /\ items[i].log # <<>>

\* ==========================================================================
\* The registry with real paths
\* ==========================================================================
\* A path is a sequence of segments; <<>> is ".".
RECURSIVE Normalize(_, _)
Normalize(done, rest) ==
    IF rest = <<>> THEN done
    ELSE IF Head(rest) = "." THEN Normalize(done, Tail(rest))
    ELSE IF Head(rest) = ".." /\ done # <<>> /\ done[Len(done)] # ".."
         THEN Normalize(SubSeq(done, 1, Len(done) - 1), Tail(rest))
    ELSE Normalize(Append(done, Head(rest)), Tail(rest))

\* path.join(a, b)
PathJoin(a, b) == Normalize(<<>>, a \o b)

RegPipes == 2     \* pipelines of the registry specification
RegItems == 3     \* items of the registry specification

\* "@asset:" + _nextAnonId++ and "@file:" + _nextAnonId++
AssetNames == <<"@asset:1", "@asset:2", "@asset:3", "@asset:4", "@asset:5">>
FileNames == <<"@file:1", "@file:2", "@file:3", "@file:4", "@file:5">>

\* What callers pass: ids of addSource, relative paths of spawn.
RegIds == { <<"a">>, <<"d", "a">>, <<"..", "a">>, <<"@asset:1">>, <<"@file:2">> }
RegRelPaths == { <<>>, <<"d">> }

\* fam.paths[p]: this.path of pipeline p; fam.lists[p]: its _items, as item
\* paths; fam.all: the shared _allItems, path -> the item (its pipeline and
\* index in _items); fam.anon: _nextAnonId; fam.last: how the last call ended.
FamInit ==
    [paths |-> << <<>> >>, lists |-> << <<>> >>, all |-> {}, anon |-> 1, last |-> "none"]

InitReg ==
    /\ CoreInit
    /\ fam = FamInit
    /\ mrg = Idle /\ imp = Idle /\ tag = Idle
    /\ UnitsIdle

RegHas(path) == \E e \in fam.all : e.path = path

\* this._allItems.set(path, item)
RegSet(path, p) ==
    { e \in fam.all : e.path # path } \cup {[path |-> path, pipe |-> p, idx |-> Len(fam.lists[p]) + 1]}

\* addSource(id, text): itemPath = path.join(this.path, id); throws when the
\* registry has it, else pushes the item on _items and sets it in _allItems.
RegAddSource(p, id) ==
    LET itemPath == PathJoin(fam.paths[p], id) IN
    /\ p \in 1..Len(fam.paths)
    /\ fam' = IF RegHas(itemPath) THEN [fam EXCEPT !.last = "dup"]
              ELSE [fam EXCEPT !.lists[p] = Append(@, itemPath),
                               !.all = RegSet(itemPath, p), !.last = "ok"]
    /\ UNCHANGED <<units, core, mrg, imp, tag>>

\* addAssets(...) and addOutputFile(...): an item with a synthetic path is
\* pushed on _items and set in _allItems.
RegAddAnon(p, names) ==
    /\ p \in 1..Len(fam.paths)
    /\ fam.anon <= Len(names)
    /\ fam' = [fam EXCEPT !.lists[p] = Append(@, <<names[fam.anon]>>),
                          !.all = RegSet(<<names[fam.anon]>>, p),
                          !.anon = @ + 1, !.last = "ok"]
    /\ UNCHANGED <<units, core, mrg, imp, tag>>

RegAddAssets(p) == RegAddAnon(p, AssetNames)
RegAddOutputFile(p) == RegAddAnon(p, FileNames)

\* spawn(relativePath): the child's path is path.join(this.path, relativePath)
RegSpawn(p, rel) ==
    /\ p \in 1..Len(fam.paths)
    /\ Len(fam.paths) < RegPipes
    /\ fam' = [fam EXCEPT !.paths = Append(@, PathJoin(fam.paths[p], rel)),
                          !.lists = Append(@, <<>>), !.last = "ok"]
    /\ UNCHANGED <<units, core, mrg, imp, tag>>

RegItemCount == Cardinality(UNION { {<<p, n>> : n \in 1..Len(fam.lists[p])} : p \in 1..Len(fam.paths) })

NextReg ==
    \/ \E p \in 1..RegPipes, rel \in RegRelPaths : RegSpawn(p, rel)
    \/ \E p \in 1..RegPipes, id \in RegIds : RegItemCount < RegItems /\ RegAddSource(p, id)
    \/ \E p \in 1..RegPipes : RegItemCount < RegItems /\ RegAddAssets(p)
    \/ \E p \in 1..RegPipes : RegItemCount < RegItems /\ RegAddOutputFile(p)

SpecReg == InitReg /\ [][NextReg]_vars

\* The items of the family: pipeline and index in its _items.
FamItems == UNION { {<<p, n>> : n \in 1..Len(fam.lists[p])} : p \in 1..Len(fam.paths) }

\* C11 -- Path uniqueness: after any sequence of addSource, addAssets,
\* addOutputFile and spawn calls, no two items of the family have the same
\* path.
C11_PathsUnique ==
    \A x, y \in FamItems : x # y => fam.lists[x[1]][x[2]] # fam.lists[y[1]][y[2]]

\* ==========================================================================
\* The data of an item
\* ==========================================================================
DataKeys == {"partial", "title"}
DataValues == {"x", "y"}

\* An object: a function from the keys it has to their values.
Objects == UNION { [S -> DataValues] : S \in SUBSET DataKeys }

\* { ...a, ...b }: the properties of b are written over those of a
Spread(a, b) ==
    [k \in DOMAIN a \cup DOMAIN b |-> IF k \in DOMAIN b THEN b[k] ELSE a[k]]

\* if (warnings?.length) data.warnings = warnings
WithWarnings(data, warned) ==
    IF warned THEN [k \in DOMAIN data \cup {"warnings"} |->
                        IF k = "warnings" THEN "w" ELSE data[k]]
    ELSE data

\* data = { ...itemData, ...data }, data being the front matter
MergeData(itemData, front, warned) == Spread(itemData, WithWarnings(front, warned))

\* One call addSource(id, text, itemData): the front matter of text, whether
\* the YAML parser warned, and the caller's itemData.
InitData ==
    /\ CoreInit
    /\ fam = Idle /\ imp = Idle /\ tag = Idle
    /\ UnitsIdle
    /\ mrg \in [itemData : Objects, front : Objects, warned : BOOLEAN,
                st : {"call"}, data : {<<>>}]

DataAddSource ==
    /\ mrg.st = "call"
    /\ mrg' = [mrg EXCEPT !.st = "done",
                          !.data = MergeData(mrg.itemData, mrg.front, mrg.warned)]
    /\ UNCHANGED <<units, core, fam, imp, tag>>

NextData == DataAddSource

SpecData == InitData /\ [][NextData]_vars

\* C16 -- Data merge: after addSource(id, text, itemData) a key that occurs
\* both in itemData and in the front matter of text holds the value of
\* itemData; a key that occurs in one of the two holds that value.
C16_ItemDataWins ==
    mrg.st = "done" =>
        \A k \in DataKeys :
            /\ k \in DOMAIN mrg.itemData =>
                  (k \in DOMAIN mrg.data /\ mrg.data[k] = mrg.itemData[k])
            /\ (k \in DOMAIN mrg.front /\ k \notin DOMAIN mrg.itemData) =>
                  (k \in DOMAIN mrg.data /\ mrg.data[k] = mrg.front[k])

\* ==========================================================================
\* Comment tags: replaceCommentTagsAsync
\* ==========================================================================
TagLen == 3       \* tokens of the text given to replaceCommentTagsAsync

\* A text is a sequence of tokens: plain text, or a marker <!--{{name}}-->
\* that the regular expression of replaceCommentTagsAsync matches.
MarkerName == [m \in {"{{a}}", "{{b}}", "{{u}}", "{{toString}}", "{{constructor}}"} |->
                 CASE m = "{{a}}" -> "a" [] m = "{{b}}" -> "b"
                   [] m = "{{u}}" -> "u" [] m = "{{toString}}" -> "toString"
                   [] OTHER -> "constructor"]
IsMarker(tok) == tok \in DOMAIN MarkerName
TagTokens == {"t"} \cup DOMAIN MarkerName

Texts == UNION { [1..n -> TagTokens] : n \in 0..TagLen }

\* What a callback returns: a string (tokens, a marker possibly among them),
\* or something that is not a string.
CbResults == { [str |-> TRUE, text |-> <<"r">>],
               [str |-> TRUE, text |-> <<"{{b}}">>],
               [str |-> TRUE, text |-> <<>>],
               [str |-> FALSE, text |-> <<>>] }

\* The callbacks object: its own properties, among the names a and b.
CbMaps == UNION { [S -> CbResults] : S \in SUBSET {"a", "b"} }

\* The properties every object inherits from Object.prototype.  Called as
\* a plain function, toString returns a string and constructor (Object)
\* returns an object.
ProtoMembers == [n \in {"toString", "constructor"} |->
                   IF n = "toString" THEN [str |-> TRUE, text |-> <<"[object]">>]
                   ELSE [str |-> FALSE, text |-> <<>>]]

\* callbacks[match[1]]: property access, own properties first, then the
\* prototype; the empty set when the value is undefined.
Lookup(cbs, name) ==
    IF name \in DOMAIN cbs THEN {cbs[name]}
    ELSE IF name \in DOMAIN ProtoMembers THEN {ProtoMembers[name]}
    ELSE {}

\* tag.idx: re.lastIndex (next token to look at); tag.lastIdx, tag.result:
\* the locals of the same name; tag.cur: the match whose callback is
\* awaited; tag.calls: the positions whose callback was called, in order;
\* tag.err: the error the call rejects with.
InitTags ==
    /\ CoreInit
    /\ fam = Idle /\ mrg = Idle /\ imp = Idle
    /\ UnitsIdle
    /\ tag \in [text : Texts, cbs : CbMaps, idx : {1}, lastIdx : {1}, result : {<<>>},
                cur : {0}, calls : {<<>>}, st : {"scan"}, err : {<<>>}]

Slice(text, from, to) == SubSeq(text, from, to)

\* re.exec(text): the first match at or after lastIndex, 0 when there is none
NextMatch(text, idx) ==
    IF \E m \in idx..Len(text) : IsMarker(text[m])
    THEN CHOOSE m \in idx..Len(text) :
            IsMarker(text[m]) /\ \A k \in idx..(m - 1) : ~IsMarker(text[k])
    ELSE 0

\* One turn of the while loop up to its await: no match ends the loop and
\* returns result + text.slice(lastIdx); a match without callback is passed
\* over; a match with a callback calls it.
TagScan ==
    /\ tag.st = "scan"
    /\ LET m == NextMatch(tag.text, tag.idx) IN
       tag' = IF m = 0
              THEN [tag EXCEPT !.st = "done",
                               !.result = @ \o Slice(tag.text, tag.lastIdx, Len(tag.text))]
              ELSE IF Lookup(tag.cbs, MarkerName[tag.text[m]]) = {}
              THEN [tag EXCEPT !.idx = m + 1]
              ELSE [tag EXCEPT !.idx = m + 1, !.cur = m, !.st = "await",
                               !.calls = Append(@, m)]
    /\ UNCHANGED <<units, core, fam, mrg, imp>>

\* throw Error("Invalid replacement for " + tag)
InvalidReplacement(marker) == <<"Invalid replacement for ", marker>>
CallbackError == <<"error of the callback">>

\* The awaited callback fulfils and its value is added to result after the
\* text since lastIdx, whatever its type.
TagResumeUnchecked ==
    /\ tag.st = "await"
    /\ LET repl == CHOOSE v \in Lookup(tag.cbs, MarkerName[tag.text[tag.cur]]) : TRUE IN
       tag' = [tag EXCEPT !.st = "scan", !.cur = 0,
                          !.result = @ \o Slice(tag.text, tag.lastIdx, tag.cur - 1)
                                       \o repl.text,
                          !.lastIdx = tag.cur + 1]
    /\ UNCHANGED <<units, core, fam, mrg, imp>>

\* The awaited callback fulfils: a value that is not a string throws, a
\* string is added to result after the text since lastIdx.
TagResume ==
    /\ tag.st = "await"
    /\ LET repl == CHOOSE v \in Lookup(tag.cbs, MarkerName[tag.text[tag.cur]]) : TRUE IN
       tag' = IF ~repl.str THEN [tag EXCEPT !.st = "failed", !.cur = 0,
                                           !.err = InvalidReplacement(tag.text[tag.cur])]
              ELSE [tag EXCEPT !.st = "scan", !.cur = 0,
                               !.result = @ \o Slice(tag.text, tag.lastIdx, tag.cur - 1)
                                            \o repl.text,
                               !.lastIdx = tag.cur + 1]
    /\ UNCHANGED <<units, core, fam, mrg, imp>>

\* The awaited callback throws, or its promise rejects.
TagThrow ==
    /\ tag.st = "await"
    /\ tag' = [tag EXCEPT !.st = "failed", !.cur = 0, !.err = CallbackError]
    /\ UNCHANGED <<units, core, fam, mrg, imp>>

NextTags == TagScan \/ TagResume \/ TagThrow

SpecTags == InitTags /\ [][NextTags]_vars

\* The text with each marker that has a callback of its own in the map
\* replaced by that callback's result, every other token unchanged.
RECURSIVE Substituted(_, _)
Substituted(text, cbs) ==
    IF text = <<>> THEN <<>>
    ELSE (IF IsMarker(Head(text)) /\ MarkerName[Head(text)] \in DOMAIN cbs
          THEN cbs[MarkerName[Head(text)]].text
          ELSE <<Head(text)>>) \o Substituted(Tail(text), cbs)

\* C20 -- Single-pass tag substitution: the callbacks are called one at a
\* time, in order of appearance, for the markers whose name is a key of the
\* callback map and for no other; the result is the text with each of these
\* markers replaced by its callback's result, the results not scanned, and
\* every other marker unchanged.
C20_SinglePass ==
    /\ \A n \in 1..Len(tag.calls) :
          /\ MarkerName[tag.text[tag.calls[n]]] \in DOMAIN tag.cbs
          /\ n > 1 => tag.calls[n - 1] < tag.calls[n]
    /\ tag.st = "done" => tag.result = Substituted(tag.text, tag.cbs)

\* ==========================================================================
\* The import tag: _builtinResolveTransform, _relPath, readTextFileAsync
\* ==========================================================================
ImpTop == 2       \* files given to addFiles in the import specification

\* path.dirname(p) and the last segment of p
Dirname(p) == SubSeq(p, 1, Len(p) - 1)
Basename(p) == p[Len(p)]

\* path.relative(from, to), both relative to the working directory
RECURSIVE PathRelative(_, _)
PathRelative(from, to) ==
    IF from # <<>> /\ to # <<>> /\ Head(from) = Head(to)
    THEN PathRelative(Tail(from), Tail(to))
    ELSE [k \in 1..Len(from) |-> ".."] \o to

\* path.resolve(a, b) for relative a and b, the working directory being <<>>
PathResolve(a, b) == Normalize(<<>>, a \o b)

\* The import tags of the files, and the src attribute of each.
ImportB == "<!--{{import src=inc/b.md}}-->"
ImportBRel == "<!--{{import src=b.md}}-->"
ImportC == "<!--{{import src=c.md}}-->"
ImportLoop == "<!--{{import src=loop.md}}-->"
ImportP == "<!--{{import src=p.md}}-->"
ImportQ == "<!--{{import src=q.md}}-->"
ImportE == "<!--{{import src=e.md}}-->"
ImportTags == {ImportB, ImportBRel, ImportC, ImportLoop, ImportP, ImportQ, ImportE}
ImportSrc(line) ==
    CASE line = ImportB -> <<"inc", "b.md">>
      [] line = ImportBRel -> <<"b.md">>
      [] line = ImportC -> <<"c.md">>
      [] line = ImportLoop -> <<"loop.md">>
      [] line = ImportP -> <<"p.md">>
      [] line = ImportQ -> <<"q.md">>
      [] line = ImportE -> <<"e.md">>

\* The files below the pipeline's directory: a.md imports inc/b.md, which
\* imports inc/c.md; inc/d.md imports inc/b.md as well.  loop.md imports
\* itself; p.md imports q.md, which imports e.md and then p.md.
ImpFileNames == {<<"a.md">>, <<"inc", "b.md">>, <<"inc", "c.md">>, <<"inc", "d.md">>,
                 <<"e.md">>, <<"loop.md">>, <<"p.md">>, <<"q.md">>}
FileLines(rel) ==
    CASE rel = <<"a.md">> -> <<"a1", ImportB, "a2">>
      [] rel = <<"inc", "b.md">> -> <<"b1", ImportC, "b2">>
      [] rel = <<"inc", "c.md">> -> <<"c1">>
      [] rel = <<"inc", "d.md">> -> <<ImportBRel>>
      [] rel = <<"e.md">> -> <<"e1">>
      [] rel = <<"loop.md">> -> <<"l1", ImportLoop>>
      [] rel = <<"p.md">> -> <<ImportQ, "p2">>
      [] rel = <<"q.md">> -> <<ImportE, ImportP>>

\* The files addFiles is called with, in order.
TopNames == << <<"a.md">>, <<"inc", "d.md">>, <<"e.md">>, <<"loop.md">>, <<"p.md">> >>

\* fileName.replace(/\.md$|\.txt$/, "")
StripExt(name) ==
    CASE name = "a.md" -> "a" [] name = "b.md" -> "b" [] name = "c.md" -> "c"
      [] name = "d.md" -> "d" [] name = "e.md" -> "e" [] name = "loop.md" -> "loop"
      [] name = "p.md" -> "p" [] name = "q.md" -> "q" [] OTHER -> name

\* The pipeline's path: "" for the main pipeline, "content" for
\* spawn("content", ".").
ImpPaths == {<<>>, <<"content">>}

\* The front matter inc/b.md may have.
ImpFronts == UNION { [S -> {"true", "false"}] : S \in SUBSET {"partial"} }

\* fs.existsSync(abs)
FileExists(pp, abs) == \E rel \in ImpFileNames : abs = pp \o rel
FileRel(pp, abs) == CHOOSE rel \in ImpFileNames : abs = pp \o rel

\* The front matter splitMarkdown finds in a file
FileFront(rel, bFront) ==
    IF rel = <<"inc", "b.md">> THEN bFront ELSE [k \in {} |-> "true"]

\* item.data.partial as a condition
Truthy(data, key) == key \in DOMAIN data /\ data[key] # "false"

\* An item path is a directory, a file name and the number of the
\* "__import#" suffix of the name (0: no suffix).
\* path.join(this.path, id) in addSource, id being idDir/idBase
ItemPath(pp, idDir, idBase, n) == [dir |-> PathJoin(pp, idDir), base |-> idBase, imp |-> n]

\* _relPath(item, src)
RelPath(pp, item, src) == PathJoin(PathRelative(pp, item.path.dir), src)

\* item.source.join("\n") split at "\n" again
JoinSplit(source) == IF source = <<>> THEN <<"">> ELSE source

NewImpItem(path, source, data, parent, file) ==
    [path |-> path, source |-> source, data |-> data, parent |-> parent,
     pc |-> "source", i |-> 1, rd |-> <<>>, wait |-> 0, ran |-> {},
     output |-> FALSE, replaced |-> FALSE, spliced |-> <<>>,
     file |-> file, tried |-> <<>>]

\* imp.ppath: the pipeline's path; imp.front: the front matter of inc/b.md;
\* imp.added: the files addFiles has added; imp.nextId: _nextImportId;
\* imp.items: the items, each with the position of its chain (pc), the
\* line replaceSourceTagsAsync is at (i), the callbacks that ran on it, and,
\* for an imported item, the lines returned for its tag (spliced); file:
\* the file the item's text was read from; tried: the src of each import
\* tag of the item and the file readTextFileAsync looked for.
InitImport ==
    /\ CoreInit
    /\ fam = Idle /\ mrg = Idle /\ tag = Idle
    /\ UnitsIdle
    /\ imp \in [ppath : ImpPaths, front : ImpFronts, added : {{}}, nextId : {1},
                items : {<<>>}]

\* addFiles: the file is read and addSource(fileName, text) called; the
\* pipeline has started.
ImpAddFile(t) ==
    /\ t \notin imp.added
    /\ LET name == TopNames[t]
           path == ItemPath(imp.ppath, Dirname(name), StripExt(Basename(name)), 0)
           data == MergeData([k \in {} |-> "true"], FileFront(name, imp.front), FALSE)
       IN imp' = [imp EXCEPT !.added = @ \cup {t},
                             !.items = Append(@, NewImpItem(path, FileLines(name), data, 0,
                                                            imp.ppath \o name))]
    /\ UNCHANGED <<units, core, fam, mrg, tag>>

\* _transform: a source-stage callback of the user runs on the item
ImpSourceCb(n) ==
    /\ imp.items[n].pc = "source"
    /\ imp' = [imp EXCEPT !.items[n].pc = "resolve", !.items[n].ran = @ \cup {"source"}]
    /\ UNCHANGED <<units, core, fam, mrg, tag>>

\* The files an item's text comes from: its own and those of the items it
\* was imported for.
RECURSIVE ImportChain(_)
ImportChain(n) ==
    IF n = 0 THEN {} ELSE {imp.items[n].file} \cup ImportChain(imp.items[n].parent)

\* An import callback that refuses a file of the item's own import chain.
ImpResolveStepDetects(n) ==
    /\ imp.items[n].pc = "resolve"
    /\ LET it == imp.items[n] IN
       IF it.i > Len(it.source)
       THEN imp' = [imp EXCEPT !.items[n].pc = "resolve2",
                               !.items[n].ran = @ \cup {"resolve"}]
       ELSE IF it.source[it.i] \notin ImportTags
       THEN imp' = [imp EXCEPT !.items[n].i = @ + 1]
       ELSE LET src == ImportSrc(it.source[it.i])
                srcPath == RelPath(imp.ppath, it, src)
                file == PathResolve(imp.ppath, srcPath)
                try == [src |-> src, file |-> file]
            IN
            IF FileExists(imp.ppath, file) /\ file \notin ImportChain(n)
            THEN imp' = [imp EXCEPT !.items[n].pc = "read", !.items[n].rd = srcPath,
                                    !.items[n].tried = Append(@, try)]
            ELSE imp' = [imp EXCEPT !.items[n].pc = "failed",
                                    !.items[n].tried = Append(@, try)]
    /\ UNCHANGED <<units, core, fam, mrg, tag>>

\* _builtinResolveTransform, replaceSourceTagsAsync at line i: past the last
\* line the callback returns; a line without import tag is kept; for an
\* import tag the callback computes srcPath and calls readTextFileAsync,
\* which throws when the file does not exist.
ImpResolveStep(n) ==
    /\ imp.items[n].pc = "resolve"
    /\ LET it == imp.items[n] IN
       IF it.i > Len(it.source)
       THEN imp' = [imp EXCEPT !.items[n].pc = "resolve2",
                               !.items[n].ran = @ \cup {"resolve"}]
       ELSE IF it.source[it.i] \notin ImportTags
       THEN imp' = [imp EXCEPT !.items[n].i = @ + 1]
       ELSE LET src == ImportSrc(it.source[it.i])
                srcPath == RelPath(imp.ppath, it, src)
                try == [src |-> src, file |-> PathResolve(imp.ppath, srcPath)]
            IN
            IF FileExists(imp.ppath, PathResolve(imp.ppath, srcPath))
            THEN imp' = [imp EXCEPT !.items[n].pc = "read", !.items[n].rd = srcPath,
                                    !.items[n].tried = Append(@, try)]
            ELSE imp' = [imp EXCEPT !.items[n].pc = "failed",
                                    !.items[n].tried = Append(@, try)]
    /\ UNCHANGED <<units, core, fam, mrg, tag>>

\* The import callback after its read: addSource(path.join(pipeline.path,
\* srcPath + "__import#" + _nextImportId++), text, { partial: true }), then
\* imported.waitAsync().
ImpReadDone(n) ==
    /\ imp.items[n].pc = "read"
    /\ LET srcPath == imp.items[n].rd
           rel == FileRel(imp.ppath, PathResolve(imp.ppath, srcPath))
           idDir == PathJoin(imp.ppath, Dirname(srcPath))
           path == ItemPath(imp.ppath, idDir, Basename(srcPath), imp.nextId)
           data == MergeData([k \in {"partial"} |-> "true"],
                             FileFront(rel, imp.front), FALSE)
       IN imp' = [imp EXCEPT !.nextId = @ + 1,
                             !.items = Append([@ EXCEPT ![n].pc = "await",
                                                        ![n].rd = <<>>,
                                                        ![n].wait = Len(imp.items) + 1],
                                              NewImpItem(path, FileLines(rel), data, n,
                                                         imp.ppath \o rel))]
    /\ UNCHANGED <<units, core, fam, mrg, tag>>

\* imported.waitAsync() fulfils: the callback returns
\* imported.source.join("\n"), whose lines replace line i.
ImpReturn(n) ==
    /\ imp.items[n].pc = "await"
    /\ imp.items[imp.items[n].wait].pc = "done"
    /\ LET it == imp.items[n]
           m == it.wait
           lines == JoinSplit(imp.items[m].source)
       IN imp' = [imp EXCEPT !.items[n].source = SubSeq(it.source, 1, it.i - 1) \o lines
                                                   \o SubSeq(it.source, it.i + 1, Len(it.source)),
                             !.items[n].i = it.i + Len(lines),
                             !.items[n].pc = "resolve",
                             !.items[n].wait = 0,
                             !.items[m].replaced = TRUE,
                             !.items[m].spliced = lines]
    /\ UNCHANGED <<units, core, fam, mrg, tag>>

\* imported.waitAsync() rejects: the importing item's chain fails
ImpRejected(n) ==
    /\ imp.items[n].pc = "await"
    /\ imp.items[imp.items[n].wait].pc = "failed"
    /\ imp' = [imp EXCEPT !.items[n].pc = "failed", !.items[n].wait = 0]
    /\ UNCHANGED <<units, core, fam, mrg, tag>>

\* _transform: a resolve-stage callback of the user, registered after the
\* built-in one, runs on the item
ImpResolveCb(n) ==
    /\ imp.items[n].pc = "resolve2"
    /\ imp' = [imp EXCEPT !.items[n].pc = "parse", !.items[n].ran = @ \cup {"resolve2"}]
    /\ UNCHANGED <<units, core, fam, mrg, tag>>

\* _transform, parseAsync: a partial item is skipped and its chain ends;
\* another item with source lines gets its output.
ImpParse(n) ==
    /\ imp.items[n].pc = "parse"
    /\ LET it == imp.items[n] IN
       IF Truthy(it.data, "partial")
       THEN imp' = [imp EXCEPT !.items[n].pc = "done"]
       ELSE imp' = [imp EXCEPT !.items[n].pc = "output",
                               !.items[n].output = (it.source # <<>>)]
    /\ UNCHANGED <<units, core, fam, mrg, tag>>

\* _transform: the output-stage callbacks run and the chain ends
ImpOutputCb(n) ==
    /\ imp.items[n].pc = "output"
    /\ imp' = [imp EXCEPT !.items[n].pc = "done", !.items[n].ran = @ \cup {"output"}]
    /\ UNCHANGED <<units, core, fam, mrg, tag>>

NextImport ==
    \/ \E t \in 1..ImpTop : ImpAddFile(t)
    \/ \E n \in 1..Len(imp.items) : ImpSourceCb(n)
    \/ \E n \in 1..Len(imp.items) : ImpResolveStep(n)
    \/ \E n \in 1..Len(imp.items) : ImpReadDone(n)
    \/ \E n \in 1..Len(imp.items) : ImpReturn(n)
    \/ \E n \in 1..Len(imp.items) : ImpRejected(n)
    \/ \E n \in 1..Len(imp.items) : ImpResolveCb(n)
    \/ \E n \in 1..Len(imp.items) : ImpParse(n)
    \/ \E n \in 1..Len(imp.items) : ImpOutputCb(n)

SpecImport == InitImport /\ [][NextImport]_vars

\* C18 -- Import waits for the imported item: when the import tag has been
\* replaced, the imported item's chain has finished with its source- and
\* resolve-stage callbacks run, and the lines put in place of the tag are
\* the item's source; an imported item is partial and never has an output.
C18_ImportWaits ==
    \A m \in 1..Len(imp.items) :
        imp.items[m].parent # 0 =>
            /\ Truthy(imp.items[m].data, "partial")
            /\ ~imp.items[m].output
            /\ imp.items[m].replaced =>
                  /\ imp.items[m].pc = "done"
                  /\ {"source", "resolve", "resolve2"} \subseteq imp.items[m].ran
                  /\ imp.items[m].spliced = imp.items[m].source

\* C19 -- Import flattening: a.md imports inc/b.md, which imports inc/c.md.
\* The resolve stage of a.md's item does not fail, and after it the item's
\* source is the lines of a.md with those of b.md in place of its tag and
\* those of c.md in place of b.md's tag, no import tag left.
C19_ImportFlattening ==
    \A n \in 1..Len(imp.items) :
        (imp.items[n].path.base = "a" /\ imp.items[n].parent = 0) =>
            /\ imp.items[n].pc # "failed"
            /\ "resolve" \in imp.items[n].ran =>
                  imp.items[n].source = <<"a1", "b1", "c1", "b2", "a2">>

\* ==========================================================================
\* Source lines: PipelineItem.replaceSourceTagsAsync
\* ==========================================================================
LinLen == 2       \* lines of item.source at the call

\* The value replaceCommentTagsAsync(text, callbacks) fulfils with when every
\* callback returns a string: the text with the result of the callback in
\* place of each marker callbacks[name] finds a callback for.
RECURSIVE ReplaceTags(_, _)
ReplaceTags(text, cbs) ==
    IF text = <<>> THEN <<>>
    ELSE (IF IsMarker(Head(text)) /\ Lookup(cbs, MarkerName[Head(text)]) # {}
          THEN (CHOOSE v \in Lookup(cbs, MarkerName[Head(text)]) : TRUE).text
          ELSE <<Head(text)>>) \o ReplaceTags(Tail(text), cbs)

\* s.split("\n"): the pieces of s between its newlines, k + 1 of them for
\* k newlines
RECURSIVE SplitNL(_, _)
SplitNL(piece, rest) ==
    IF rest = <<>> THEN <<piece>>
    ELSE IF Head(rest) = "\n" THEN <<piece>> \o SplitNL(<<>>, Tail(rest))
    ELSE SplitNL(Append(piece, Head(rest)), Tail(rest))

\* The loop index after the lines of one replacement are in place:
\* i += lines.length - 1, then i++
AfterSpliceRescan(i, lines) == i + 1
AfterSplice(i, lines) == i + Len(lines)

\* The lines a source may hold (none with a newline), and what the
\* callbacks a and b return.
LinLines == { <<"t", "{{a}}", "t">>, <<"{{a}}">>, <<"t">>, <<"{{u}}">>, <<"{{a}}", "{{b}}">> }
LinResults == { <<"r">>, <<"r", "\n", "r">>, <<"\n">>, <<>>, <<"r", "\n", "{{b}}">>,
                <<"{{a}}", "\n", "\n", "t">> }
LinCbs == { [a |-> [str |-> TRUE, text |-> ra]] : ra \in LinResults }
          \cup { [a |-> [str |-> TRUE, text |-> ra], b |-> [str |-> TRUE, text |-> <<"r">>]] :
                    ra \in LinResults }

\* lin.source: item.source; lin.i: the loop index (from 1); lin.orig: the
\* source at the call.
InitLines ==
    /\ CoreInit /\ ExtIdle
    /\ res = Idle /\ out = Idle /\ fc = Idle /\ fl = Idle /\ mw = Idle
    /\ \E src \in UNION { [1..n -> LinLines] : n \in 0..LinLen }, cbs \in LinCbs :
          lin = [source |-> src, orig |-> src, cbs |-> cbs, i |-> 1, st |-> "run"]

\* One turn of the loop: the line at i is replaced by the lines of its
\* replacement; past the last line the call returns.
LinStep ==
    /\ lin.st = "run"
    /\ IF lin.i > Len(lin.source)
       THEN lin' = [lin EXCEPT !.st = "done"]
       ELSE LET lines == SplitNL(<<>>, ReplaceTags(lin.source[lin.i], lin.cbs)) IN
            lin' = [lin EXCEPT !.source = SubSeq(lin.source, 1, lin.i - 1) \o lines
                                            \o SubSeq(lin.source, lin.i + 1, Len(lin.source)),
                               !.i = AfterSplice(lin.i, lines)]
    /\ UNCHANGED <<core, ext, mw, res, out, fc, fl>>

NextLines == LinStep

SpecLines == InitLines /\ [][NextLines]_vars

\* The lines the call must leave: for each line of the original source, in
\* order, the pieces of its single-pass substitution.
RECURSIVE ExpectedLines(_, _)
ExpectedLines(src, cbs) ==
    IF src = <<>> THEN <<>>
    ELSE SplitNL(<<>>, Substituted(Head(src), cbs)) \o ExpectedLines(Tail(src), cbs)

NewlineFree(src) == \A k \in 1..Len(src) : \A j \in 1..Len(src[k]) : src[k][j] # "\n"

\* C21 -- Line-sequence invariant of source substitution: no line of
\* item.source ever holds a newline; when replaceSourceTagsAsync returns,
\* the source is, for each original line in order, the k + 1 lines of its
\* replacement with k newlines, the inserted lines not scanned again; the
\* source "t <a> t" with a returning "r\nr" becomes exactly "t r", "r t".
C21_LineSequence ==
    /\ NewlineFree(lin.source)
    /\ lin.st = "done" =>
          /\ lin.source = ExpectedLines(lin.orig, lin.cbs)
          /\ (lin.orig = << <<"t", "{{a}}", "t">> >> /\ lin.cbs.a.text = <<"r", "\n", "r">>)
                => lin.source = << <<"t", "r">>, <<"r", "t">> >>

C21_Witness ==
    /\ lin.st = "done"
    /\ lin.orig = << <<"t">>, <<"t", "{{a}}", "t">> >>
    /\ lin.cbs.a.text = <<"r", "\n", "{{b}}">>
    /\ "b" \in DOMAIN lin.cbs
    /\ lin.source = << <<"t">>, <<"t", "r">>, <<"{{b}}", "t">> >>

\* ==========================================================================
\* The built-in resolve transform: the insert tag and data.assets
\* ==========================================================================
ResAssets == 2    \* entries of data.assets

\* A JavaScript value of the front matter or of a tag attribute: its type
\* and its text.
JsVal(type, v) == [type |-> type, v |-> v]
Undefined == JsVal("undefined", "")
Str(v) == JsVal("string", v)

\* a || b
JsTruthy(a) ==
    CASE a.type = "string" -> a.v # ""
      [] a.type = "number" -> a.v # "0"
      [] a.type = "boolean" -> a.v = "true"
      [] OTHER -> FALSE
JsOr(a, b) == IF JsTruthy(a) THEN a ELSE b

\* What YAML front matter gives data[prop] (Undefined: no such key), and
\* the default attribute of the tag (Undefined: no such attribute).
PropValues == { Undefined, Str("x"), Str(""), JsVal("number", "2024"), JsVal("number", "0"),
                JsVal("boolean", "false"), JsVal("null", "null") }
DefaultValues == { Undefined, Str("N/A") }

\* insert: (attr) => item.data[attr.prop] || attr.default || ""
InsertCallback(dataProp, dflt) == JsOr(JsOr(dataProp, dflt), Str(""))

\* An entry of data.assets: a string (a file name relative to the item), or
\* an object with input and output, <<>> for a property it lacks.
AssetEntries ==
    { [kind |-> "string", name |-> n, input |-> <<>>, output |-> <<>>] :
         n \in { <<"i.png">>, <<"..", "i.png">> } }
    \cup { [kind |-> "object", name |-> <<>>, input |-> i, output |-> o] :
              i \in { <<>>, <<"x", "in.png">> }, o \in { <<>>, <<"y", "out.png">> } }
AssetLists == UNION { [1..n -> AssetEntries] : n \in 0..ResAssets }

\* The string branch of the loop over data.assets
ResolveAssetFlat(pp, op, item, asset) ==
    [input |-> PathJoin(pp, asset), output |-> PathJoin(op, asset)]
ResolveAsset(pp, op, item, asset) ==
    LET relAsset == RelPath(pp, item, asset) IN
    [input |-> PathJoin(pp, relAsset), output |-> PathJoin(op, relAsset)]

\* The loop over data.assets: the assets pushed, and whether an entry threw
RECURSIVE PushAssets(_, _, _, _, _)
PushAssets(pp, op, item, entries, pushed) ==
    IF entries = <<>> THEN [assets |-> pushed, thrown |-> FALSE]
    ELSE LET a == Head(entries) IN
         IF a.kind = "string"
         THEN PushAssets(pp, op, item, Tail(entries),
                         Append(pushed, ResolveAsset(pp, op, item, a.name)))
         ELSE IF a.input # <<>> /\ a.output # <<>>
         THEN PushAssets(pp, op, item, Tail(entries),
                         Append(pushed, [input |-> a.input, output |-> a.output]))
         ELSE [assets |-> pushed, thrown |-> TRUE]

\* res.ppath, res.opath: the pipeline's input and output path; res.sub: the
\* directory of the item's file below the pipeline's path; res.item: the
\* item, added by addFiles; res.prop, res.dflt: data[prop] and the default
\* attribute of the one insert tag of the source; res.text: what stands in
\* place of the tag; res.added, res.readCalls: items added and files read
\* by the transform.
InitResolve ==
    /\ CoreInit /\ ExtIdle
    /\ lin = Idle /\ out = Idle /\ fc = Idle /\ fl = Idle /\ mw = Idle
    /\ \E pp \in ImpPaths, op \in { <<>>, <<"out">> }, sub \in { <<>>, <<"inc">> },
          pv \in PropValues, dv \in DefaultValues, al \in AssetLists :
          res = [ppath |-> pp, opath |-> op, sub |-> sub,
                 item |-> [path |-> ItemPath(pp, sub, "a", 0), assets |-> <<>>],
                 prop |-> pv, dflt |-> dv, entries |-> al,
                 text |-> "<!--{{insert}}-->", st |-> "tags", err |-> "",
                 added |-> 0, readCalls |-> 0]

\* replaceSourceTagsAsync with the insert callback: the value the callback
\* returns replaces the tag, unless it is not a string.
ResInsert ==
    /\ res.st = "tags"
    /\ LET repl == InsertCallback(res.prop, res.dflt) IN
       res' = IF repl.type # "string"
              THEN [res EXCEPT !.st = "failed", !.err = "Invalid replacement"]
              ELSE [res EXCEPT !.st = "assets", !.text = repl.v]
    /\ UNCHANGED <<core, ext, mw, lin, out, fc, fl>>

\* The loop over data.assets
ResAssetsLoop ==
    /\ res.st = "assets"
    /\ LET r == PushAssets(res.ppath, res.opath, res.item, res.entries, <<>>) IN
       res' = [res EXCEPT !.item.assets = r.assets,
                          !.st = IF r.thrown THEN "failed" ELSE "done",
                          !.err = IF r.thrown THEN "Invalid asset" ELSE ""]
    /\ UNCHANGED <<core, ext, mw, lin, out, fc, fl>>

NextResolve == ResInsert \/ ResAssetsLoop

SpecResolve == InitResolve /\ [][NextResolve]_vars

\* The text of a value
TextOf(val) == val.v

\* C22 -- Insert lookup: the insert tag is replaced by data[prop] when the
\* key is present, by the default attribute when the key is absent and the
\* attribute present, by the empty string when both are absent; the
\* replacement does not fail, adds no item and reads no file.
C22_InsertLookup ==
    /\ res.err # "Invalid replacement"
    /\ res.added = 0 /\ res.readCalls = 0
    /\ res.st \in {"assets", "done"} =>
          res.text = IF res.prop # Undefined THEN TextOf(res.prop)
                     ELSE IF res.dflt # Undefined THEN TextOf(res.dflt)
                     ELSE ""

\* The pair a string entry stands for: the file in the item's directory,
\* below the input path and below the output path.
ExpectedAsset(name) ==
    [input |-> Normalize(<<>>, res.ppath \o res.sub \o name),
     output |-> Normalize(<<>>, res.opath \o res.sub \o name)]
ExpectedEntry(a) ==
    IF a.kind = "string" THEN ExpectedAsset(a.name)
    ELSE [input |-> a.input, output |-> a.output]
Lacking(a) == a.kind = "object" /\ (a.input = <<>> \/ a.output = <<>>)

OutLen == 3       \* tokens of item.output.text when the transform starts

\* The output text is a sequence of tokens: text, white space, an opening
\* tag, a closing tag, or one of the three comment tags.  Each token
\* carries, for the properties only, whether it came from an imported file.
HtmlImportTag == "<!--{{html-import src=f}}-->"
HtmlInsertTag == "<!--{{html-insert prop=p}}-->"
HtmlAttrTag == "<!--{{html-attr a}}-->"
OutStrings == {"t", " ", "<p>", "</p>", HtmlImportTag, HtmlInsertTag, HtmlAttrTag}
OwnTok(str) == [s |-> str, imp |-> FALSE]
FileTok(str) == [s |-> str, imp |-> TRUE]
OutTexts == UNION { [1..n -> {OwnTok(str) : str \in OutStrings}] : n \in 0..OutLen }

\* The texts the imported file may hold.
OutFiles == { <<"t">>, <<HtmlAttrTag, "<p>">>, <<"<p>", HtmlInsertTag>>, <<HtmlImportTag>>,
              <<"</p>", HtmlAttrTag>> }

\* data[prop], the default attribute and the raw attribute of the
\* html-insert tag, as parseCommentTagProps gives them: a bare raw is
\* "raw", raw="" is the empty string.
OutPropValues == { Undefined, Str("<b>"), Str(""), JsVal("number", "2024") }
OutRawValues == { Undefined, Str("raw"), Str(""), Str("false") }
OutInserts == [prop : OutPropValues, dflt : DefaultValues, raw : OutRawValues]

\* encode(s) of html-entities
Escape(v) == CASE v = "<b>" -> "&lt;b&gt;" [] OTHER -> v

\* escapeHtml(s): encode(s || ""); for a value that is not a string the
\* library either encodes its text or throws, depending on its version.
EscapeHtml(val) ==
    IF ~JsTruthy(val) THEN { Str("") }
    ELSE IF val.type = "string" THEN { Str(Escape(val.v)) }
    ELSE { Str(val.v), JsVal("error", "TypeError") }

\* The html-insert callback: the values it may return
HtmlInsert(ins) ==
    IF JsTruthy(ins.raw) THEN { InsertCallback(ins.prop, ins.dflt) }
    ELSE EscapeHtml(InsertCallback(ins.prop, ins.dflt))

\* replaceCommentTagsAsync over the output text with the two callbacks:
\* the file's text for html-import, repl for html-insert; any other token
\* stays.
RECURSIVE OutReplace(_, _, _)
OutReplace(text, file, repl) ==
    IF text = <<>> THEN <<>>
    ELSE (IF Head(text).s = HtmlImportTag THEN [k \in 1..Len(file) |-> FileTok(file[k])]
          ELSE IF Head(text).s = HtmlInsertTag THEN << OwnTok(repl) >>
          ELSE << Head(text) >>) \o OutReplace(Tail(text), file, repl)

\* The regular expression of parseHtmlAttrTags at a tag: the white space
\* after position k, and whether an opening tag follows it.
RECURSIVE SpaceEnd(_, _)
SpaceEnd(text, k) ==
    IF k + 1 <= Len(text) /\ text[k + 1].s = " " THEN SpaceEnd(text, k + 1) ELSE k
IsOpenTag(tok) == tok.s = "<p>"
WithAttr(tok) == [tok EXCEPT !.s = "<p a>"]
MatchesAtNoSpace(text, k) ==
    /\ text[k].s = HtmlAttrTag
    /\ k + 1 <= Len(text)
    /\ IsOpenTag(text[k + 1])
MatchesAt(text, k) ==
    /\ text[k].s = HtmlAttrTag
    /\ SpaceEnd(text, k) + 1 <= Len(text)
    /\ IsOpenTag(text[SpaceEnd(text, k) + 1])

\* parseHtmlAttrTags(s): s.replace with the global regular expression, from
\* position k on
RECURSIVE ReplaceAttrs(_, _)
ReplaceAttrs(text, k) ==
    IF k > Len(text) THEN <<>>
    ELSE IF MatchesAt(text, k)
    THEN << WithAttr(text[SpaceEnd(text, k) + 1]) >> \o ReplaceAttrs(text, SpaceEnd(text, k) + 2)
    ELSE << text[k] >> \o ReplaceAttrs(text, k + 1)

HasTag(text, str) == \E k \in 1..Len(text) : text[k].s = str

\* out.text: item.output.text; out.orig: the text at the start; out.mid:
\* the text after replaceOutputTagsAsync; out.file: the text of the file f;
\* out.ins: the html-insert tag's data and attributes; out.repl: what the
\* html-insert callback returned.
InitOutput ==
    /\ CoreInit /\ ExtIdle
    /\ lin = Idle /\ res = Idle /\ fc = Idle /\ fl = Idle /\ mw = Idle
    /\ \E text \in OutTexts :
       \E file \in IF HasTag(text, HtmlImportTag) THEN OutFiles ELSE { <<>> } :
       \E ins \in IF HasTag(text, HtmlInsertTag) THEN OutInserts
                  ELSE { [prop |-> Undefined, dflt |-> Undefined, raw |-> Undefined] } :
          out = [text |-> text, orig |-> text, mid |-> <<>>, file |-> file, ins |-> ins,
                 repl |-> Undefined, st |-> "enter"]

\* if (item.output && item.output.text), then the timer
OutEnter ==
    /\ out.st = "enter"
    /\ out' = [out EXCEPT !.st = IF out.text = <<>> THEN "done" ELSE "tags"]
    /\ UNCHANGED <<core, ext, mw, lin, res, fc, fl>>

\* item.replaceOutputTagsAsync: fails when the html-insert callback throws
\* or returns a value that is not a string
OutTags ==
    /\ out.st = "tags"
    /\ IF HasTag(out.text, HtmlInsertTag)
       THEN \E repl \in HtmlInsert(out.ins) :
               out' = IF repl.type # "string"
                      THEN [out EXCEPT !.st = "failed", !.repl = repl]
                      ELSE [out EXCEPT !.st = "attrs", !.repl = repl,
                                       !.text = OutReplace(out.text, out.file, repl.v),
                                       !.mid = OutReplace(out.text, out.file, repl.v)]
       ELSE out' = [out EXCEPT !.st = "attrs",
                               !.text = OutReplace(out.text, out.file, ""),
                               !.mid = OutReplace(out.text, out.file, "")]
    /\ UNCHANGED <<core, ext, mw, lin, res, fc, fl>>

\* text: replaceHtmlAttrTags(item.output.text)
OutAttrs ==
    /\ out.st = "attrs"
    /\ out' = [out EXCEPT !.st = "done", !.text = ReplaceAttrs(out.text, 1)]
    /\ UNCHANGED <<core, ext, mw, lin, res, fc, fl>>

NextOutput == OutEnter \/ OutTags \/ OutAttrs

SpecOutput == InitOutput /\ [][NextOutput]_vars

Count(text, str) == Cardinality({k \in 1..Len(text) : text[k].s = str})
RECURSIVE Repeat(_, _)
Repeat(text, n) == IF n = 0 THEN <<>> ELSE text \o Repeat(text, n - 1)
FromFile(tok) == tok.imp
StringsOf(text) == [k \in 1..Len(text) |-> text[k].s]

\* C24 -- html-import is verbatim: when the built-in output-resolve
\* transform has finished, the tokens of the output that came from the
\* imported file are the file's text, once for each html-import tag, no
\* token of it expanded, removed or rewritten.
C24_ImportVerbatim ==
    out.st = "done" =>
        StringsOf(SelectSeq(out.text, FromFile))
            = Repeat(out.file, Count(out.orig, HtmlImportTag))

\* C25 -- html-insert escaping: the tag is replaced, without failure, by
\* data[prop], or by the default attribute or the empty string when the
\* property is absent; HTML-escaped when the tag has no raw attribute,
\* unescaped when it has one, whatever its value.
InsertedValue ==
    IF out.ins.prop # Undefined THEN out.ins.prop.v
    ELSE IF out.ins.dflt # Undefined THEN out.ins.dflt.v
    ELSE ""
C25_InsertEscaping ==
    HasTag(out.orig, HtmlInsertTag) /\ out.st \notin {"enter", "tags"} =>
        /\ out.st # "failed"
        /\ out.repl = IF out.ins.raw # Undefined THEN Str(InsertedValue)
                      ELSE Str(Escape(InsertedValue))

\* An html-attr tag followed, after white space only, by an opening tag
Adjacent(text, k) ==
    /\ text[k].s = HtmlAttrTag
    /\ \E j \in (k + 1)..Len(text) :
          /\ IsOpenTag(text[j])
          /\ \A h \in (k + 1)..(j - 1) : text[h].s = " "
\* The tokens that stay: neither such a tag nor the white space after it
Stays(text, k) ==
    /\ ~Adjacent(text, k)
    /\ ~\E a \in 1..(k - 1) :
          /\ Adjacent(text, a)
          /\ \A h \in (a + 1)..k : text[h].s = " "
Injected(text, k) ==
    IF IsOpenTag(text[k]) /\ \E a \in 1..(k - 1) :
          Adjacent(text, a) /\ \A h \in (a + 1)..(k - 1) : text[h].s = " "
    THEN "<p a>" ELSE text[k].s
RECURSIVE AttrsApplied(_, _)
AttrsApplied(text, k) ==
    IF k > Len(text) THEN <<>>
    ELSE (IF Stays(text, k) THEN << Injected(text, k) >> ELSE <<>>)
         \o AttrsApplied(text, k + 1)

\* C26 -- html-attr adjacency: the output after the transform is the text
\* left by the html-import/html-insert substitution with every html-attr
\* tag that is followed, after white space only, by an opening tag removed
\* and its attribute put into that tag, and with nothing else changed: a
\* tag before text, a closing tag or the end stays as it is.
C26_AttrAdjacency ==
    out.st = "done" /\ out.orig # <<>> =>
        /\ StringsOf(out.text) = AttrsApplied(out.mid, 1)
        /\ StringsOf(out.mid) = <<HtmlAttrTag, "<p>">> => StringsOf(out.text) = << "<p a>" >>
        /\ StringsOf(out.mid) = <<HtmlAttrTag, "t">> => out.text = out.mid
        /\ StringsOf(out.mid) = <<HtmlAttrTag, "</p>">> => out.text = out.mid
        /\ StringsOf(out.mid) = <<HtmlAttrTag>> => out.text = out.mid

C26_Witness ==
    /\ out.st = "done"
    /\ StringsOf(out.orig) = <<HtmlImportTag, " ", "<p>">>
    /\ StringsOf(out.mid) = <<"</p>", HtmlAttrTag, " ", "<p>">>
    /\ StringsOf(out.text) = <<"</p>", "<p a>">>

\* ==========================================================================
\* FileCache: readTextFileAsync and copyFileAsync
\* ==========================================================================
FcCalls == 3      \* calls of readTextFileAsync
FcCopies == 3     \* calls of copyFileAsync

\* Resolved absolute paths; "m" is a file that does not exist.
FcPaths == {"a", "b", "m"}
FcExists(path) == path # "m"
NoText == "none"

\* Inputs and outputs of copyFileAsync; "./o1" and "o1" are one file.
FcInputs == {"a", "b", "m"}
FcOutputs == {"o1", "./o1", "o2"}
\* file2.replace(/^\.\//, "")
StripDotNot(file2) == file2
StripDot(file2) == IF file2 = "./o1" THEN "o1" ELSE file2
RealFile(file2) == IF file2 = "./o1" THEN "o1" ELSE file2
Unclaimed == "unclaimed"

\* fc.disk: the text of each file in storage; fc.cache: _cache; fc.cacheP:
\* _cacheP, the number of the promise kept for a path (0: none);
\* fc.promises: the promises made, each with the text it fulfilled with;
\* fc.issued: the fs.readFile calls per path; fc.calls: the calls of
\* readTextFileAsync, each with its promise or its text; fc.copied:
\* _copied; fc.copies: the copies started, fc.copyCalls: the calls of
\* copyFileAsync with what _copied held for the output at the call.
InitFiles ==
    /\ CoreInit /\ ExtIdle
    /\ lin = Idle /\ res = Idle /\ out = Idle /\ fl = Idle /\ mw = Idle
    /\ fc = [disk |-> [p \in FcPaths |-> "v1"],
             cache |-> [p \in FcPaths |-> NoText],
             cacheP |-> [p \in FcPaths |-> 0],
             promises |-> <<>>,
             issued |-> [p \in FcPaths |-> 0],
             calls |-> <<>>,
             copied |-> [o \in FcOutputs |-> Unclaimed],
             copies |-> <<>>,
             copyCalls |-> <<>>]

\* if (this._cacheP.has(abs))
HasPendingNever(path) == FALSE
HasPending(path) == fc.cacheP[path] # 0

\* readTextFileAsync(fileName): a missing file throws; a cached text is
\* returned; a pending promise is returned; otherwise fs.readFile is called
\* and its promise kept in _cacheP.
FcRead(path) ==
    /\ Len(fc.calls) < FcCalls
    /\ IF ~FcExists(path)
       THEN fc' = [fc EXCEPT !.calls = Append(@, [path |-> path, st |-> "failed",
                                                    promise |-> 0, text |-> NoText])]
       ELSE IF fc.cache[path] # NoText
       THEN fc' = [fc EXCEPT !.calls = Append(@, [path |-> path, st |-> "got",
                                                    promise |-> 0, text |-> fc.cache[path]])]
       ELSE IF HasPending(path)
       THEN fc' = [fc EXCEPT !.calls = Append(@, [path |-> path, st |-> "pending",
                                                    promise |-> fc.cacheP[path], text |-> NoText])]
       ELSE fc' = [fc EXCEPT !.issued[path] = @ + 1,
                             !.promises = Append(@, [path |-> path, text |-> NoText]),
                             !.cacheP[path] = Len(fc.promises) + 1,
                             !.calls = Append(@, [path |-> path, st |-> "pending",
                                                    promise |-> Len(fc.promises) + 1,
                                                    text |-> NoText])]
    /\ UNCHANGED <<core, ext, mw, lin, res, out, fl>>

\* The callback of fs.readFile: the text is put in _cache and the promise
\* fulfils with it.
FcReadDone(n) ==
    /\ fc.promises[n].text = NoText
    /\ LET path == fc.promises[n].path IN
       fc' = [fc EXCEPT !.cache[path] = fc.disk[path],
                        !.promises[n].text = fc.disk[path]]
    /\ UNCHANGED <<core, ext, mw, lin, res, out, fl>>

\* A caller awaiting a fulfilled promise resumes with its text.
FcResume(c) ==
    /\ fc.calls[c].st = "pending"
    /\ fc.promises[fc.calls[c].promise].text # NoText
    /\ fc' = [fc EXCEPT !.calls[c].st = "got",
                        !.calls[c].text = fc.promises[fc.calls[c].promise].text]
    /\ UNCHANGED <<core, ext, mw, lin, res, out, fl>>

\* Another process changes a file in storage.
FcDiskChange(path) ==
    /\ FcExists(path)
    /\ fc.disk[path] = "v1"
    /\ fc' = [fc EXCEPT !.disk[path] = "v2"]
    /\ UNCHANGED <<core, ext, mw, lin, res, out, fl>>

NextRead ==
    \/ \E path \in FcPaths : FcRead(path)
    \/ \E n \in 1..Len(fc.promises) : FcReadDone(n)
    \/ \E c \in 1..Len(fc.calls) : FcResume(c)
    \/ \E path \in FcPaths : FcDiskChange(path)

SpecRead == InitFiles /\ [][NextRead]_vars

\* C27 -- Read memoization: for every path the storage read is issued at
\* most once; the calls for one path that wait share one pending promise,
\* and all calls for one path that have their text have the same text.
C27_ReadOnce ==
    /\ \A path \in FcPaths : fc.issued[path] <= 1
    /\ \A c, d \in 1..Len(fc.calls) :
          fc.calls[c].path = fc.calls[d].path =>
              /\ (fc.calls[c].promise # 0 /\ fc.calls[d].promise # 0)
                    => fc.calls[c].promise = fc.calls[d].promise
              /\ (fc.calls[c].st = "got" /\ fc.calls[d].st = "got")
                    => fc.calls[c].text = fc.calls[d].text

C27_Witness ==
    /\ Len(fc.calls) = 3
    /\ \A c \in 1..3 : fc.calls[c].path = "a" /\ fc.calls[c].st = "got" /\ fc.calls[c].text = "v1"
    /\ fc.calls[1].promise # 0 /\ fc.calls[2].promise # 0 /\ fc.calls[3].promise = 0
    /\ fc.disk["a"] = "v2"

\* copyFileAsync(file1, file2): a missing input throws; an output copied
\* before returns for the same input and throws for another; otherwise the
\* pair is kept in _copied and the copy started.
FcCopy(file1, file2) ==
    /\ Len(fc.copyCalls) < FcCopies
    /\ LET o == StripDot(file2)
           call == [input |-> file1, output |-> file2, claimed |-> fc.copied[RealFile(file2)],
                    result |-> "ok", copies |-> FALSE]
       IN IF ~FcExists(file1)
          THEN fc' = [fc EXCEPT !.copyCalls = Append(@, [call EXCEPT !.result = "missing"])]
          ELSE IF fc.copied[o] # Unclaimed
          THEN fc' = [fc EXCEPT !.copyCalls =
                         Append(@, [call EXCEPT !.result = IF fc.copied[o] = file1 THEN "ok"
                                                           ELSE "conflict"])]
          ELSE fc' = [fc EXCEPT !.copied[o] = file1,
                                !.copies = Append(@, [input |-> file1, output |-> o, done |-> FALSE]),
                                !.copyCalls = Append(@, [call EXCEPT !.copies = TRUE])]
    /\ UNCHANGED <<core, ext, mw, lin, res, out, fl>>

\* The callbacks of fs.readFile and fs.writeFile: the copy is done.
FcCopyDone(n) ==
    /\ ~fc.copies[n].done
    /\ fc' = [fc EXCEPT !.copies[n].done = TRUE]
    /\ UNCHANGED <<core, ext, mw, lin, res, out, fl>>

NextCopy ==
    \/ \E file1 \in FcInputs, file2 \in FcOutputs : FcCopy(file1, file2)
    \/ \E n \in 1..Len(fc.copies) : FcCopyDone(n)

SpecCopy == InitFiles /\ [][NextCopy]_vars

\* C28 -- Asset copy conflict: each output file is copied at most once,
\* from one input; a call with an existing input whose output was claimed
\* by another input fails with the conflicting-asset-output error and
\* starts no copy; a call repeating a pair succeeds and starts no copy.
C28_CopyConflict ==
    /\ \A m, n \in 1..Len(fc.copies) :
          RealFile(fc.copies[m].output) = RealFile(fc.copies[n].output) => m = n
    /\ \A c \in 1..Len(fc.copyCalls) :
          LET call == fc.copyCalls[c] IN
          FcExists(call.input) =>
              /\ call.result = "conflict" <=> call.claimed \notin {Unclaimed, call.input}
              /\ call.claimed \notin {Unclaimed, call.input} => ~call.copies
              /\ call.claimed = call.input => (call.result = "ok" /\ ~call.copies)
              /\ call.claimed = Unclaimed => (call.result = "ok" /\ call.copies)

C28_Witness ==
    /\ Len(fc.copyCalls) = 3
    /\ fc.copyCalls[1] = [input |-> "a", output |-> "o1", claimed |-> Unclaimed,
                          result |-> "ok", copies |-> TRUE]
    /\ fc.copyCalls[2] = [input |-> "a", output |-> "./o1", claimed |-> "a",
                          result |-> "ok", copies |-> FALSE]
    /\ fc.copyCalls[3] = [input |-> "b", output |-> "o1", claimed |-> "a",
                          result |-> "conflict", copies |-> FALSE]
    /\ Len(fc.copies) = 1

\* ==========================================================================
\* The driver: writing the outputs and copying the assets after the run
\* ==========================================================================
FlItems == 2      \* items of the family at the end of the run

\* destPath (process.argv[2])
Dest == <<"dest">>

\* item.output.path and asset.output, relative to the destination
\* directory; NoOutput: the item has no output.
NoOutput == <<"(none)">>
FlItemOutputs == { <<"index.html">>, <<"other.html">>, <<"..", "x.html">> }
FlAssetOutputs == { <<"img", "one.png">>, <<"index.html">>, <<"..", "one.png">> }
FlAssetPairs == [input : {"a", "b"}, output : FlAssetOutputs]
\* item.data.warnings when it is not an array (undefined), and
\* item.output.text as the pieces the scan for unreplaced tags tells apart
NoWarnings == <<"(none)">>
PlainText == <<"<p>">>
FlItemRecs == [inactive : BOOLEAN, output : FlItemOutputs \cup {NoOutput},
               assets : { <<>> } \cup { <<pair>> : pair \in FlAssetPairs },
               warnings : {NoWarnings}, text : {PlainText}]
FlDestFiles == { PathJoin(Dest, o) : o \in FlItemOutputs \cup FlAssetOutputs }

\* path.relative(destPath, destFileName).startsWith("..")
OutsideDestNever(destFileName) == FALSE
OutsideDest(destFileName) ==
    LET rel == PathRelative(Dest, destFileName) IN rel # <<>> /\ rel[1] = ".."

\* copyFileAsync(file1, file2) on the driver's FileCache: what the call
\* does, given _copied
CopyOutcome(copied, file1, file2) ==
    IF ~FcExists(file1) THEN "missing"
    ELSE IF copied[file2] # Unclaimed
    THEN (IF copied[file2] = file1 THEN "same" ELSE "conflict")
    ELSE "start"

\* The loop over item.assets: the first asset outside the destination
\* throws; every other is handed to copyFileAsync, whose promise goes on q
\* (acc.k: the item the assets belong to).
RECURSIVE FlushAssets(_, _)
FlushAssets(assets, acc) ==
    IF assets = <<>> \/ acc.thrown THEN acc
    ELSE LET destFileName == PathJoin(Dest, Head(assets).output)
             outcome == CopyOutcome(acc.copied, Head(assets).input, destFileName)
         IN IF OutsideDest(destFileName)
            THEN [acc EXCEPT !.thrown = TRUE]
            ELSE FlushAssets(Tail(assets),
                    [acc EXCEPT !.q = Append(@, [kind |-> "copy", path |-> destFileName,
                                                 item |-> acc.k,
                                                 input |-> Head(assets).input,
                                                 issued |-> (outcome = "start"),
                                                 rejected |-> (outcome \in {"missing", "conflict"})]),
                                !.copied = IF outcome = "start"
                                           THEN [@ EXCEPT ![destFileName] = Head(assets).input]
                                           ELSE @])

\* Array.isArray(item.data.warnings)
IsArray(warnings) == warnings # NoWarnings

\* "Warning (" + item.path + "): " + s, the item named by its place in
\* getAllItems()
WarningLine(k, s) == [item |-> k, text |-> s]

\* warnings.push(...item.data.warnings.map(...))
DeclaredWarnings(k, item) ==
    IF IsArray(item.warnings)
    THEN [n \in 1..Len(item.warnings) |-> WarningLine(k, item.warnings[n])]
    ELSE <<>>

\* /\<\!--\{\{\s*[^\>\s]+[^\>]*\}\}--\>/g over the pieces of the output text
IsUnreplacedTag(piece) == piece \in {"<!--{{a}}-->", "<!--{{ b x }}-->"}

\* while ((tagMatch = re.exec(text))) warnings.push(...)
RECURSIVE UnreplacedWarnings(_, _)
UnreplacedWarnings(k, text) ==
    IF text = <<>> THEN <<>>
    ELSE (IF IsUnreplacedTag(Head(text))
          THEN <<WarningLine(k, "Output contains unreplaced tag " \o Head(text))>>
          ELSE <<>>) \o UnreplacedWarnings(k, Tail(text))

\* fl.items: getAllItems(); fl.k: the item the loop is at; fl.q: the
\* promises of the writes and copies called so far, each with its file,
\* whether the operation was issued to storage and whether it rejects;
\* fl.copied: _copied of the driver's FileCache; fl.warnings: the driver's
\* warnings array; fl.summary: what the driver prints at the end.
FlushStart(its) ==
    [items |-> its, k |-> 1, q |-> <<>>,
     copied |-> [f \in FlDestFiles |-> Unclaimed],
     st |-> "loop", err |-> "", warnings |-> <<>>, summary |-> <<>>]

InitFlush ==
    /\ CoreInit /\ ExtIdle
    /\ lin = Idle /\ res = Idle /\ out = Idle /\ fc = Idle /\ mw = Idle
    /\ \E its \in UNION { [1..n -> FlItemRecs] : n \in 0..FlItems } :
          fl = FlushStart(its)

\* An item that declares warnings is passed over as well.
PassedOverWarned(item) == item.inactive \/ IsArray(item.warnings)

\* No item is passed over.
PassedOverNever(item) == FALSE

\* if (item.data.inactive) continue;
PassedOver(item) == item.inactive

\* One turn of the loop over the items: an inactive item is passed over;
\* the declared warnings are collected; an output outside the destination
\* throws, another is written and scanned for unreplaced tags; then the
\* assets.  After the last item the driver awaits Promise.all(q).
FlushTurn(f) ==
    IF f.k > Len(f.items) THEN [f EXCEPT !.st = "await"]
    ELSE LET item == f.items[f.k]
             destFileName == PathJoin(Dest, item.output)
             collected == f.warnings \o DeclaredWarnings(f.k, item)
             written == IF item.output = NoOutput THEN f.q
                        ELSE Append(f.q, [kind |-> "write", path |-> destFileName,
                                          item |-> f.k,
                                          input |-> "", issued |-> TRUE,
                                          rejected |-> FALSE])
             scanned == IF item.output = NoOutput THEN collected
                        ELSE collected \o UnreplacedWarnings(f.k, item.text)
             acc == FlushAssets(item.assets,
                                [q |-> written, copied |-> f.copied, thrown |-> FALSE,
                                 k |-> f.k])
         IN IF PassedOver(item) THEN [f EXCEPT !.k = @ + 1]
            ELSE IF item.output # NoOutput /\ OutsideDest(destFileName)
            THEN [f EXCEPT !.st = "failed", !.err = "outside", !.warnings = collected]
            ELSE [f EXCEPT !.q = acc.q, !.copied = acc.copied,
                           !.warnings = scanned,
                           !.k = IF acc.thrown THEN @ ELSE @ + 1,
                           !.st = IF acc.thrown THEN "failed" ELSE @,
                           !.err = IF acc.thrown THEN "outside" ELSE @]

FlushItem ==
    /\ fl.st = "loop"
    /\ fl' = FlushTurn(fl)
    /\ UNCHANGED <<core, ext, mw, lin, res, out, fc>>

\* await Promise.all(q);
\* console.log(warnings.join("\n") || "Completed successfully.")
FlushAwaited(f) ==
    IF \E n \in 1..Len(f.q) : f.q[n].rejected
    THEN [f EXCEPT !.st = "failed", !.err = "copy"]
    ELSE [f EXCEPT !.st = "done",
                   !.summary = IF f.warnings = <<>>
                               THEN <<WarningLine(0, "Completed successfully.")>>
                               ELSE f.warnings]

FlushAwait ==
    /\ fl.st = "await"
    /\ fl' = FlushAwaited(fl)
    /\ UNCHANGED <<core, ext, mw, lin, res, out, fc>>

NextFlush == FlushItem \/ FlushAwait

SpecFlush == InitFlush /\ [][NextFlush]_vars

\* The operations issued to storage
IssuedOps == { n \in 1..Len(fl.q) : fl.q[n].issued }

\* C29 -- Write conflict detection: a run that does not fail has issued no
\* two writes to one file and no write and copy to one file.
C29_WriteConflict ==
    fl.st = "done" =>
        \A m, n \in IssuedOps :
            (m # n /\ "write" \in {fl.q[m].kind, fl.q[n].kind}) => fl.q[m].path # fl.q[n].path

\* A file below the destination directory
InsideDest(file) == Len(file) > Len(Dest) /\ SubSeq(file, 1, Len(Dest)) = Dest
ActiveItems == { k \in 1..Len(fl.items) : ~fl.items[k].inactive }
ActiveOutputs ==
    { fl.items[k].output : k \in { j \in ActiveItems : fl.items[j].output # NoOutput } }
    \cup UNION { { fl.items[k].assets[a].output : a \in 1..Len(fl.items[k].assets) } :
                   k \in ActiveItems }

\* C30 -- Output confinement: no write or copy is called for a file outside
\* the destination directory, and the loop ends without error only if
\* every output and asset output of the active items is inside it.
C30_Confinement ==
    /\ \A n \in 1..Len(fl.q) : InsideDest(fl.q[n].path)
    /\ fl.st \in {"await", "done"} =>
          \A o \in ActiveOutputs : InsideDest(Normalize(<<>>, Dest \o o))

C30_Witness ==
    /\ fl.st = "failed" /\ fl.err = "outside"
    /\ Len(fl.items) = 2
    /\ fl.items[1].output = <<"index.html">>
    /\ fl.items[2].assets # <<>> /\ fl.items[2].assets[1].output = <<"..", "one.png">>
    /\ Len(fl.q) >= 1

\* --------------------------------------------------------------------------
\* The warnings specification: the same loop over items that declare
\* warnings and whose output holds unreplaced tags.
WarnItems == 2    \* items of the family at the end of the run

WarnItemRecs == [inactive : BOOLEAN,
                 output : { <<"index.html">>, NoOutput, <<"..", "x.html">> },
                 assets : { <<>>, <<[input |-> "a", output |-> <<"img", "one.png">>]>>,
                            <<[input |-> "m", output |-> <<"img", "one.png">>]>> },
                 warnings : { NoWarnings, <<"w1">>, <<"w1", "w2">> },
                 text : { PlainText, <<"<p>", "<!--{{a}}-->">> }]

InitWarn ==
    /\ CoreInit /\ ExtIdle
    /\ lin = Idle /\ res = Idle /\ out = Idle /\ fc = Idle /\ mw = Idle
    /\ \E n \in 0..WarnItems : \E its \in [1..n -> WarnItemRecs] :
          fl = FlushStart(its)

SpecWarn == InitWarn /\ [][NextFlush]_vars

\* The whole flush from a state of the loop on
RECURSIVE FlushRun(_)
FlushRun(f) ==
    IF f.st = "loop" THEN FlushRun(FlushTurn(f))
    ELSE IF f.st = "await" THEN FlushRun(FlushAwaited(f))
    ELSE f

\* The same items without declared warnings and without unreplaced tags
WithoutWarnings(its) ==
    [k \in DOMAIN its |-> [its[k] EXCEPT !.warnings = NoWarnings, !.text = PlainText]]

\* The lines the items call for: the declared warnings of the active items
\* and one line per unreplaced tag in the output of an active item
CalledFor ==
    UNION { { WarningLine(k, fl.items[k].warnings[n]) : n \in 1..Len(fl.items[k].warnings) } :
              k \in { j \in ActiveItems : IsArray(fl.items[j].warnings) } }
    \cup UNION { { UnreplacedWarnings(k, fl.items[k].text)[n] :
                     n \in 1..Len(UnreplacedWarnings(k, fl.items[k].text)) } :
                   k \in { j \in ActiveItems : fl.items[j].output # NoOutput } }

\* C31 -- Warnings are non-fatal: the flush of a family ends as the flush
\* of the same items without warnings and unreplaced tags does: the same
\* success or failure, the same writes and copies; the warnings are printed
\* only by a flush that succeeded, and then all of them.
C31_WarningsNonFatal ==
    /\ fl.summary # <<>> => fl.st = "done"
    /\ fl.st \in {"done", "failed"} =>
          LET base == FlushRun(FlushStart(WithoutWarnings(fl.items)))
          IN  /\ base.st = fl.st /\ base.err = fl.err
              /\ base.q = fl.q /\ base.copied = fl.copied
    /\ (fl.st = "done" /\ CalledFor # {}) =>
          { fl.summary[n] : n \in 1..Len(fl.summary) } = CalledFor

C31_Witness ==
    /\ fl.st = "done"
    /\ Len(fl.items) = 2
    /\ fl.items[1].warnings = <<"w1", "w2">> /\ fl.items[2].text # PlainText
    /\ Len(fl.summary) = 3
    /\ Len(fl.q) = 3

\* C32 -- Inactive items produce nothing: no write and no copy the flush
\* calls is for an item whose data.inactive is set, whatever output and
\* assets the item carries.
C32_InactiveNothing ==
    \A n \in 1..Len(fl.q) : ~fl.items[fl.q[n].item].inactive

C32_Witness ==
    /\ fl.st = "done"
    /\ Len(fl.items) = 2
    /\ fl.items[1].inactive /\ fl.items[1].output = <<"index.html">>
    /\ fl.items[1].assets # <<>>
    /\ ~fl.items[2].inactive /\ fl.items[2].output = <<"other.html">>
    /\ Len(fl.q) = 1

\* ==========================================================================
\* Stage callbacks that wait for an item or for a pipeline
\* ==========================================================================
MaxAwaits == 1    \* awaits of items and pipelines in one call of a callback

\* `await other.waitAsync()` in a stage callback of item i: PipelineItem
\* .waitAsync awaits the _transformPromise of the other item.
CbAwaitItem(i, j) ==
    /\ UserCallbackActive(i)
    /\ items[i].waitOn.n < MaxAwaits
    /\ Has(items, j)
    /\ items' = [items EXCEPT ![i].waitOn = [@ EXCEPT !.kind = "item", !.id = j]]
    /\ UNCHANGED <<units, ext, decl, pipes, reads, nCb, declared>>

\* `await p.waitAsync()` in a stage callback of item i: a call of its own,
\* suspended on p's gate.
CbAwaitPipe(i, p) ==
    /\ UserCallbackActive(i)
    /\ items[i].waitOn.n < MaxAwaits
    /\ pipes[p].exists
    /\ items' = [items EXCEPT ![i].waitOn =
                    [@ EXCEPT !.kind = "pipe", !.id = p, !.wpc = "gate"]]
    /\ UNCHANGED <<units, ext, decl, pipes, reads, nCb, declared>>

\* The callback goes on after an await
Resumed(w) == [NoWait EXCEPT !.n = w.n + 1]

\* The promises the callback's Promise.all was taken over
CbSnapshot(i) ==
    { pipes[items[i].waitOn.id].promises[k] : k \in 1..items[i].waitOn.wlen }

\* The loop head of the callback's call: another round, or the call
\* returns and the callback goes on.
CbLoopHead(w, p) ==
    IF Len(pipes[p].promises) > w.wlen
    THEN [w EXCEPT !.wpc = "all", !.wlen = Len(pipes[p].promises)]
    ELSE Resumed(w)

\* await this._startP; let len = 0; first test of the loop
CbJoinStart(i) ==
    /\ items[i].st = "run"
    /\ items[i].waitOn.kind = "pipe" /\ items[i].waitOn.wpc = "gate"
    /\ pipes[items[i].waitOn.id].startP
    /\ items' = [items EXCEPT ![i].waitOn = CbLoopHead(@, @.id)]
    /\ UNCHANGED <<units, ext, decl, pipes, reads, nCb, declared>>

\* Promise.all of the callback's call fulfils
CbJoinRound(i) ==
    /\ items[i].st = "run"
    /\ items[i].waitOn.kind = "pipe" /\ items[i].waitOn.wpc = "all"
    /\ \A t \in CbSnapshot(i) : Status(t) = "fulfilled"
    /\ items' = [items EXCEPT ![i].waitOn = CbLoopHead(@, @.id)]
    /\ UNCHANGED <<units, ext, decl, pipes, reads, nCb, declared>>

\* The await throws in the callback of item i, which catches the error
\* and goes on, or lets it through.
AwaitThrows(rec, caught) ==
    IF caught THEN [rec EXCEPT !.waitOn = Resumed(@)]
    ELSE Thrown(rec, CHOOSE k \in rec.active : TRUE)

\* Promise.all of the callback's call rejects
CbJoinReject(i, caught) ==
    /\ items[i].st = "run"
    /\ items[i].waitOn.kind = "pipe" /\ items[i].waitOn.wpc = "all"
    /\ \E t \in CbSnapshot(i) : Status(t) = "rejected"
    /\ items' = [items EXCEPT ![i] = AwaitThrows(@, caught)]
    /\ UNCHANGED <<units, ext, decl, pipes, reads, nCb, declared>>

\* return this without awaiting _transformPromise.
CbItemResumeAtOnce(i) ==
    /\ items[i].st = "run"
    /\ items[i].waitOn.kind = "item"
    /\ items' = [items EXCEPT ![i].waitOn = Resumed(@)]
    /\ UNCHANGED <<units, ext, decl, pipes, reads, nCb, declared>>

\* The awaited item's chain has fulfilled: the callback goes on.
CbItemResume(i) ==
    /\ items[i].st = "run"
    /\ items[i].waitOn.kind = "item"
    /\ ItemStatus(items[i].waitOn.id) = "fulfilled"
    /\ items' = [items EXCEPT ![i].waitOn = Resumed(@)]
    /\ UNCHANGED <<units, ext, decl, pipes, reads, nCb, declared>>

\* The awaited item's chain has rejected
CbItemReject(i, caught) ==
    /\ items[i].st = "run"
    /\ items[i].waitOn.kind = "item"
    /\ ItemStatus(items[i].waitOn.id) = "rejected"
    /\ items' = [items EXCEPT ![i] = AwaitThrows(@, caught)]
    /\ UNCHANGED <<units, ext, decl, pipes, reads, nCb, declared>>

\* The wait specification: the declaration code adds items to the root and
\* to a spawned pipeline and registers one callback; the callback, running
\* for an item, waits for items and pipelines, returns or throws.
NextWait ==
    \/ DeclDone
    \/ MainResolveStart
    \/ \E withInit \in BOOLEAN : Spawn(DeclActor, Root, withInit)
    \/ \E p \in Pipes, path \in Paths : AddSource(DeclActor, p, path, Plain)
    \/ nCb < MaxCb /\ AddTransform(DeclActor, Root, "source")
    \/ \E c \in Pipes : SpawnStart(c)
    \/ \E c \in Pipes : SpawnInitDone(c)
    \/ \E c \in Pipes : SpawnInitThrow(c)
    \/ \E p \in Pipes : WaitStart(p)
    \/ \E p \in Pipes : WaitRound(p)
    \/ \E p \in Pipes : WaitReject(p)
    \/ \E i \in Paths : ItemStart(i)
    \/ \E i \in Paths : ItemRun(i)
    \/ \E i \in Paths, k \in 1..(MaxCb + 3) : CallbackReturn(i, k)
    \/ \E i \in Paths, k \in 1..(MaxCb + 3) : CallbackThrow(i, k)
    \/ \E i, j \in Paths : CbAwaitItem(i, j)
    \/ \E i \in Paths, p \in Pipes : CbAwaitPipe(i, p)
    \/ \E i \in Paths : CbJoinStart(i)
    \/ \E i \in Paths : CbJoinRound(i)
    \/ \E i \in Paths, caught \in BOOLEAN : CbJoinReject(i, caught)
    \/ \E i \in Paths : CbItemResume(i)
    \/ \E i \in Paths, caught \in BOOLEAN : CbItemReject(i, caught)

SpecWait == Init /\ [][NextWait]_vars

\* What the completion of a task is waiting for: an item, for what its
\* callback awaits; the promise of a spawned pipeline, for the promises of
\* that pipeline.
Range(seq) == { seq[n] : n \in 1..Len(seq) }

ItemDeps(i) ==
    IF ~Unsettled(i) THEN {}
    ELSE IF items[i].waitOn.kind = "item" THEN { ItemTask(items[i].waitOn.id) }
    ELSE IF items[i].waitOn.kind = "pipe" THEN Range(pipes[items[i].waitOn.id].promises)
    ELSE {}

TaskDeps(t) ==
    IF t[1] = "item" THEN ItemDeps(t[2])
    ELSE IF t[1] = "spawn" THEN Range(pipes[t[2]].promises)
    ELSE {}

RECURSIVE DepsClosure(_, _)
DepsClosure(tasks, n) ==
    IF n = 0 THEN tasks
    ELSE DepsClosure(tasks \cup UNION { TaskDeps(t) : t \in tasks }, n - 1)

\* The completion of item i waits, directly or through other items and
\* pipelines, for itself.
DependsOnItself(i) == ItemTask(i) \in DepsClosure(ItemDeps(i), MaxItems + MaxPipes)

\* Two callbacks that await each other's item
MutualWait(i, j) ==
    /\ Unsettled(i) /\ items[i].waitOn.kind = "item" /\ items[i].waitOn.id = j
    /\ Unsettled(j) /\ items[j].waitOn.kind = "item" /\ items[j].waitOn.id = i

\* A callback that awaits, by its own call of waitAsync(), a Promise.all
\* that holds its item's promise
JoinCycle(i) ==
    /\ Unsettled(i) /\ items[i].waitOn.kind = "pipe" /\ items[i].waitOn.wpc = "all"
    /\ ItemTask(i) \in CbSnapshot(i)

NextLive ==
    \/ DeclDone
    \/ MainResolveStart
    \/ Spawn(DeclActor, Root, FALSE)
    \/ \E p \in Pipes, path \in Paths : AddSource(DeclActor, p, path, Plain)
    \/ \E i \in Paths, p \in Pipes, path \in Paths : AddSource(ItemActor(i), p, path, Plain)
    \/ nCb < MaxCb /\ AddTransform(DeclActor, Root, "source")
    \/ \E c \in Pipes : SpawnStart(c)
    \/ \E p \in Pipes : WaitStart(p)
    \/ \E p \in Pipes : WaitRound(p)
    \/ \E p \in Pipes : WaitReject(p)
    \/ \E i \in Paths : ItemStart(i)
    \/ \E i \in Paths : ItemRun(i)
    \/ \E i \in Paths, k \in 1..(MaxCb + 3) : CallbackReturn(i, k)
    \/ \E i \in Paths, k \in 1..(MaxCb + 3) : CallbackThrow(i, k)
    \/ \E i, j \in Paths : CbAwaitItem(i, j)
    \/ \E i \in Paths, p \in Pipes : CbAwaitPipe(i, p)
    \/ \E i \in Paths : CbJoinStart(i)
    \/ \E i \in Paths : CbJoinRound(i)
    \/ \E i \in Paths, caught \in BOOLEAN : CbJoinReject(i, caught)
    \/ \E i \in Paths : CbItemResume(i)
    \/ \E i \in Paths, caught \in BOOLEAN : CbItemReject(i, caught)

\* The event loop runs every continuation that is ready, and the
\* declaration callback, the spawn init callbacks and the stage callbacks
\* terminate: as every callback adds and awaits a bounded number of times,
\* no behaviour takes steps for ever, and it is enough that a step is taken
\* as long as one is possible.
FairLive == WF_vars(NextLive)

SpecLive == Init /\ [][NextLive]_vars /\ FairLive

RootSettled == pipes[Root].wpc \in {"done", "failed"}

\* An item whose promise is awaited by the root join, through the join of
\* its pipeline
Joined(i) ==
    /\ Has(items, i) /\ items[i].own
    /\ items[i].pipe = Root \/ pipes[items[i].pipe].own

AllItemsOf == { <<e.pipe, e.idx>> : e \in fam.all }

ResolvedFromFile(file, src) == Normalize(<<>>, Dirname(file) \o src)

OutTagLen == 2    \* tokens of item.output.text at the call

OutTagTexts == UNION { [1..n -> TagTokens] : n \in 0..OutTagLen }

\* item.output: undefined, or a path and a text
NoOutputSet == [set |-> FALSE, path |-> "", text |-> <<>>]
OutTagOutputs == { NoOutputSet } \cup [set : {TRUE}, path : {"o.html"}, text : OutTagTexts]

\* What another task writes to the text: it adds this token at the end
OtherToken == "x"

\* tag.output: item.output now; tag.before: item.output at the call;
\* tag.path: this.output.path as read before the await; tag.other: another
\* task has changed item.output.text during the call; tag.assigned: the
\* call has assigned item.output; the other fields are those of the call
\* of replaceCommentTagsAsync.
InitOutTags ==
    /\ CoreInit
    /\ fam = Idle /\ mrg = Idle /\ imp = Idle
    /\ UnitsIdle
    /\ \E o \in OutTagOutputs, cbs \in CbMaps :
          tag = [text |-> <<>>, cbs |-> cbs, idx |-> 1, lastIdx |-> 1, result |-> <<>>,
                 cur |-> 0, calls |-> <<>>, st |-> "call", err |-> <<>>,
                 output |-> o, before |-> o, path |-> "", other |-> FALSE,
                 assigned |-> FALSE]

\* if (this.output): the object literal reads this.output.path and calls
\* replaceCommentTagsAsync(this.output.text, callbacks)
OutTagsCall ==
    /\ tag.st = "call"
    /\ tag' = IF tag.output.set
              THEN [tag EXCEPT !.st = "scan", !.text = tag.output.text,
                               !.path = tag.output.path]
              ELSE [tag EXCEPT !.st = "returned"]
    /\ UNCHANGED <<units, core, fam, mrg, imp>>

\* this.output = { path, text: <the awaited result> }
OutTagsAssign ==
    /\ tag.st = "done"
    /\ tag' = [tag EXCEPT !.st = "returned", !.assigned = TRUE,
                          !.output = [set |-> TRUE, path |-> tag.path, text |-> tag.result]]
    /\ UNCHANGED <<units, core, fam, mrg, imp>>

\* While the call is suspended on a tag callback, another task (or the
\* callback itself) sets item.output.text.
OutTagsOther ==
    /\ tag.st = "await"
    /\ ~tag.other
    /\ tag.output.set
    /\ tag' = [tag EXCEPT !.output.text = Append(@, OtherToken), !.other = TRUE]
    /\ UNCHANGED <<units, core, fam, mrg, imp>>

NextOutTags ==
    \/ OutTagsCall
    \/ TagScan
    \/ TagResume
    \/ TagThrow
    \/ OutTagsAssign
    \/ OutTagsOther

SpecOutTags == InitOutTags /\ [][NextOutTags]_vars

\* The value the callback called for the marker at position m fulfils with
ResultAt(m) == CHOOSE v \in Lookup(tag.cbs, MarkerName[tag.text[m]]) : TRUE

C39_NoLostUpdate ==
    (tag.st = "returned" /\ tag.other) =>
        \E n \in 1..Len(tag.output.text) : tag.output.text[n] = OtherToken

\* ==========================================================================
\* The middleware design: _transform with one list of transforms, each of
\* which wraps the rest of the chain
\* ==========================================================================
\* One item is run through both designs.  The middleware pipeline holds the
\* transforms 1..n (addTransform); the four-stage pipeline of the core
\* specification gets the before-part of transform t as source or resolve
\* callback t and the after-parts, reversed, as output callbacks, so that
\* output callback id is the after-part of transform 2n + 1 - id.
MwLen == 2   \* transforms of the middleware pipeline

MwItem == 1

\* What a step does to the item, as both designs log it.
Before(t)    == <<"before", t>>
After(t)     == <<"after", t>>
CoreCall     == <<"core">>
ResolveTags  == <<"resolve">>
Render       == <<"render">>
OutputTags   == <<"outputResolve">>

MwInputs == { Plain, [Plain EXCEPT !.inactive = TRUE], [Plain EXCEPT !.partial = TRUE] }

MwStart == [transforms |-> <<>>, funcs |-> <<>>, stack |-> <<>>, st |-> "idle",
            output |-> FALSE, log |-> <<>>]

InitMw ==
    /\ CoreInit
    /\ ExtIdle
    /\ lin = Idle /\ res = Idle /\ out = Idle /\ fc = Idle /\ fl = Idle
    /\ mw = MwStart

\* addTransform(f) on the middleware pipeline
MwAddTransform ==
    /\ decl = "running"
    /\ nCb = 0
    /\ ~Has(items, MwItem)
    /\ Len(mw.transforms) < MwLen
    /\ mw' = [mw EXCEPT !.transforms = Append(@, Len(@) + 1)]
    /\ UNCHANGED <<core, ext, lin, res, out, fc, fl>>

\* funcs.pop(): the transforms taken from the end of the list
ShiftFromEnd(funcs) == <<funcs[Len(funcs)], SubSeq(funcs, 1, Len(funcs) - 1)>>

\* funcs.shift(): the first transform and the list that remains
Shift(funcs) == <<Head(funcs), Tail(funcs)>>

\* let funcs = [...this._transforms]; await next(): the item has passed the
\* gate (and its init function) in the four-stage pipeline as well
MwEnter ==
    /\ mw.st = "idle"
    /\ Has(items, MwItem)
    /\ items[MwItem].st \notin {"gate", "init"}
    /\ mw' = [mw EXCEPT !.st = "next", !.funcs = mw.transforms]
    /\ UNCHANGED <<core, ext, lin, res, out, fc, fl>>

\* next() while transforms remain: the next one is called, does its
\* before-work and awaits next()
MwNext ==
    /\ mw.st = "next"
    /\ mw.funcs # <<>>
    /\ LET sh == Shift(mw.funcs)
       IN  mw' = [mw EXCEPT !.funcs = sh[2],
                            !.stack = <<sh[1]>> \o @,
                            !.log = Append(@, Before(sh[1]))]
    /\ UNCHANGED <<core, ext, lin, res, out, fc, fl>>

\* What _handleItemAsync does to the item: nothing when it is inactive,
\* else the assets and the import and insert tags, then the rendering
\* when there is source (a partial item gets an output without a path)
HandleItemLog(item) ==
    <<CoreCall>> \o
    (IF item.inactive THEN <<>>
     ELSE <<ResolveTags>> \o (IF item.hasSource THEN <<Render>> ELSE <<>>))

\* next() with no transform left: _handleItemAsync(item)
MwHandleItem ==
    /\ mw.st = "next"
    /\ mw.funcs = <<>>
    /\ mw' = [mw EXCEPT !.st = "unwind",
                        !.log = @ \o HandleItemLog(items[MwItem]),
                        !.output = ~items[MwItem].inactive /\ items[MwItem].hasSource]
    /\ UNCHANGED <<core, ext, lin, res, out, fc, fl>>

\* the promise of next() fulfils: the transform that awaits it last does
\* its after-work and returns
MwReturn ==
    /\ mw.st = "unwind"
    /\ mw.stack # <<>>
    /\ mw' = [mw EXCEPT !.stack = Tail(@), !.log = Append(@, After(Head(mw.stack)))]
    /\ UNCHANGED <<core, ext, lin, res, out, fc, fl>>

\* after transforms: if (item.output && item.output.text) the HTML tags
MwOutputTags ==
    /\ mw.st = "unwind"
    /\ mw.stack = <<>>
    /\ mw' = [mw EXCEPT !.st = "done",
                        !.log = IF mw.output THEN Append(@, OutputTags) ELSE @]
    /\ UNCHANGED <<core, ext, lin, res, out, fc, fl>>

\* The four-stage registration of the same transforms: the before-parts in
\* order, each as a source or a resolve callback, then the after-parts in
\* reverse order as output callbacks.
MwRegistered == Len(mw.transforms)

RegisterBefore(stage) ==
    /\ stage \in {"source", "resolve"}
    /\ nCb < MwRegistered
    /\ AddTransform(DeclActor, Root, stage)

RegisterAfter ==
    /\ nCb >= MwRegistered
    /\ nCb < 2 * MwRegistered
    /\ AddTransform(DeclActor, Root, "output")

NextMw ==
    \/ MwAddTransform
    \/ \E stage \in {"source", "resolve"} : RegisterBefore(stage)
    \/ RegisterAfter
    \/ \E inp \in MwInputs :
          nCb = 2 * MwRegistered /\ AddSource(DeclActor, Root, MwItem, inp)
    \/ Has(items, MwItem) /\ DeclDone
    \/ MainResolveStart
    \/ ItemStart(MwItem)
    \/ ItemStep(MwItem)
    \/ \E k \in 1..(2 * MwLen + 3) : CallbackReturn(MwItem, k)
    \/ MwEnter
    \/ MwNext
    \/ MwHandleItem
    \/ MwReturn
    \/ MwOutputTags

SpecMw == InitMw /\ [][NextMw]_vars

\* The effects of the four-stage run, read from the calls of the loop of
\* _transform: parseAsync renders unless the item is partial or has no
\* source, and the built-in output-resolve transform works on an output.
StageEffect(rec, f) ==
    IF f = BuiltinResolve THEN <<ResolveTags>>
    ELSE IF f = ParseStep
    THEN (IF ~rec.partial /\ rec.hasSource THEN <<Render>> ELSE <<>>)
    ELSE IF f = BuiltinOutputResolve
    THEN (IF ~rec.partial /\ rec.hasSource THEN <<OutputTags>> ELSE <<>>)
    ELSE IF f.stage = "output" THEN <<After(2 * MwRegistered + 1 - f.id)>>
    ELSE <<Before(f.id)>>

RECURSIVE StageEffects(_, _)
StageEffects(rec, log) ==
    IF log = <<>> THEN <<>>
    ELSE StageEffects(rec, SubSeq(log, 1, Len(log) - 1)) \o StageEffect(rec, log[Len(log)])

\* the entries of a log that are work of the transforms or the rendering
RECURSIVE UserEffects(_)
UserEffects(log) ==
    IF log = <<>> THEN <<>>
    ELSE IF Head(log)[1] \in {"before", "after", "render"}
    THEN <<Head(log)>> \o UserEffects(Tail(log))
    ELSE UserEffects(Tail(log))

\* the entries of a log but the call of the core function itself
RECURSIVE ItemEffects(_)
ItemEffects(log) ==
    IF log = <<>> THEN <<>>
    ELSE IF Head(log) = CoreCall THEN ItemEffects(Tail(log))
    ELSE <<Head(log)>> \o ItemEffects(Tail(log))

BothDone == mw.st = "done" /\ items[MwItem].st = "done"

Befores(n) == [t \in 1..n |-> Before(t)]
Afters(n)  == [k \in 1..n |-> After(n + 1 - k)]

BeforesAsSource == pipes[Root].resolve = <<BuiltinResolve>>

\* no before-part registered as a resolve callback precedes, in the
\* middleware list, one registered as a source callback
BeforesInStageOrder ==
    \A a \in 1..Len(pipes[Root].source), b \in 1..Len(pipes[Root].resolve) :
        pipes[Root].resolve[b].id = 0 \/ pipes[Root].source[a].id < pipes[Root].resolve[b].id

\* C38 as the specification states it: whenever both runs of an item under
\* one transform or more are over, the work of the transforms and the
\* rendering has happened in the same order in the middleware design and in
\* the four-stage design.
C38_EquivalentAlways ==
    (BothDone /\ MwRegistered >= 1) => UserEffects(mw.log) = UserEffects(StageEffects(items[MwItem], items[MwItem].log))

\* C38, amended: the middleware design runs the before-parts in registration
\* order, then the core function exactly once, then the after-parts in
\* reverse registration order; for an item that is neither inactive nor
\* partial the four-stage design does the work of the transforms and the
\* rendering in that same order when no before-part registered as a resolve
\* callback precedes one registered as a source callback, and every effect
\* on the item in the same order when the before-parts are all source
\* callbacks.
C38_Equivalent ==
    BothDone =>
        LET n    == MwRegistered
            rec  == items[MwItem]
            four == StageEffects(rec, rec.log)
        IN  /\ \E tags \in {<<>>, <<OutputTags>>} :
                  mw.log = Befores(n) \o HandleItemLog(rec) \o Afters(n) \o tags
            /\ (~rec.inactive /\ ~rec.partial) =>
                  /\ BeforesInStageOrder => UserEffects(mw.log) = UserEffects(four)
                  /\ BeforesAsSource => ItemEffects(mw.log) = four

C38_Witness ==
    /\ BothDone
    /\ MwRegistered = MwLen
    /\ ~items[MwItem].inactive /\ ~items[MwItem].partial
    /\ BeforesAsSource
    /\ Len(mw.log) = 2 * MwLen + 4

\* ==========================================================================
\* Import cycles: files that import themselves
\* ==========================================================================
\* addFiles is called with e.md, loop.md and p.md; _nextImportId is
\* followed up to CycleDepth imports.
CycleDepth == 3   \* imports followed in the cycle specification

\* the files that import themselves, directly or through another file
CyclicFiles == {<<"loop.md">>, <<"p.md">>, <<"q.md">>}

CycleTop == { t \in DOMAIN TopNames : TopNames[t] \in CyclicFiles \cup {<<"e.md">>} }
Cyclic(it) == \E rel \in CyclicFiles : it.file = imp.ppath \o rel

InitCycle ==
    /\ CoreInit
    /\ fam = Idle /\ mrg = Idle /\ tag = Idle
    /\ UnitsIdle
    /\ imp \in [ppath : ImpPaths, front : {[k \in {} |-> "true"]}, added : {{}},
                nextId : {1}, items : {<<>>}]

NextCycle ==
    \/ \E t \in CycleTop : ImpAddFile(t)
    \/ \E n \in 1..Len(imp.items) : ImpSourceCb(n)
    \/ \E n \in 1..Len(imp.items) : ImpResolveStep(n)
    \/ \E n \in 1..Len(imp.items) : imp.nextId <= CycleDepth /\ ImpReadDone(n)
    \/ \E n \in 1..Len(imp.items) : ImpReturn(n)
    \/ \E n \in 1..Len(imp.items) : ImpRejected(n)
    \/ \E n \in 1..Len(imp.items) : ImpResolveCb(n)
    \/ \E n \in 1..Len(imp.items) : ImpParse(n)
    \/ \E n \in 1..Len(imp.items) : ImpOutputCb(n)

\* Every step of the engine is a promise reaction or the completion of a
\* file read, which the event loop runs once it is ready.
FairCycle == WF_vars(NextCycle)

SpecCycle == InitCycle /\ [][NextCycle]_vars /\ FairCycle

\* waitAsync() of the root: Promise.all over the items' promises rejects
\* with the first that rejects and fulfils when all have fulfilled
CycleRootSettled ==
    \/ \E n \in 1..Len(imp.items) : imp.items[n].pc = "failed"
    \/ /\ \E n \in 1..Len(imp.items) : Cyclic(imp.items[n])
       /\ \A n \in 1..Len(imp.items) : imp.items[n].pc = "done"

CycleAdded == \E n \in 1..Len(imp.items) : Cyclic(imp.items[n])

\* every item has a name of its own
FreshNames ==
    \A a, b \in 1..Len(imp.items) : a # b => imp.items[a].path # imp.items[b].path

====
